---- MODULE Spec2Model ----
(***************************************************************************)
(* Snapshot-to-session reconstruction of gnagstats.                        *)
(*                                                                         *)
(* The model follows these pieces of the source:                           *)
(*   - the game session loop (DataProvider._compute_game_activity_intervals*)
(*     lines 229-276; Database.query_get_game_activity_sessions lines      *)
(*     292-339 is the same loop statement for statement),                  *)
(*   - the voice session loop (DataProvider._compute_voice_activity_       *)
(*     intervals),                                                         *)
(*   - the voice timeline of the last 24 hours (build_voice_24h_timeline), *)
(*   - the steam/discord precedence merge (DataProvider._compute_game_     *)
(*     activity and Database._build_dataframe).                            *)
(*                                                                         *)
(* A data frame is a sequence of rows (records).  A float cell is an       *)
(* integer, or Inf for +infinity; a missing cell is None or NaN.  All      *)
(* finite interval values of the model are even, so that the mean of two   *)
(* of them (the median of an even-sized group) is again an integer.        *)
(***************************************************************************)
EXTENDS Integers, Sequences, FiniteSets

\* ------------------------------------------------------------------ bounds
\* rows of an input data frame of a session loop
MaxRows == 3
\* largest timestamp of an input row of a session loop
MaxTs == 5
\* rows of the two input frames of a merge, together
MaxMergeRows == 3
\* largest timestamp of a row handed to the merge
MaxMergeTs == 1
\* largest timestamp of a frame whose polling interval changes mid-stream
MaxPollTs == 6
\* rows of the input of a call when every entry point is explored
MaxEntryRows == 2
\* rows of an input frame of a repeated call of the game loop
MaxCallRows == 2
\* calls made on one DataProvider
MaxCalls == 3
\* configured Steam users of one collect_steam_data run
MaxSteamUsers == 2
\* figure builds of the background refresh thread
MaxBuilds == 2
\* request threads that call FigureCache.get
MaxRequests == 2
\* get() calls of all request threads together
MaxGets == 2
\* load_* calls made on one WebDataLoader
MaxLoads == 3
\* times the clock advances between the load_* calls
MaxTicks == 2
\* largest timestamp of a frame whose rows are handed over in another order
MaxPermTs == 3
\* rows of the steam and discord tables handed to a game pipeline, together
MaxPipeRows == 3
\* polls after the first one in the range a game pipeline loads
MaxPipePolls == 2
\* midnights that pass while core_loop runs
MaxDays == 2
\* iterations of core_loop after the first one
MaxIterations == 3
\* float +inf: larger than every finite value of the model
Inf == 1000000
\* float NaN (pandas' missing value of a float column)
NaN == Inf + 1
\* Python None (SQL NULL in an all-NULL object column)
None == Inf + 2

\* the system default of the session loops, data_provider.py:234 / db.py:297
SystemDefaultInterval == 300

\* ------------------------------------------------------------ float helpers
IsNA(v) == v \in {None, NaN}

isfinite(v) == v # Inf /\ v # NaN

FAdd(a, b) == IF a = Inf \/ b = Inf THEN Inf ELSE a + b

FMax(a, b) == IF a >= b THEN a ELSE b

FTwice(a) == IF a = Inf THEN Inf ELSE 2 * a

\* ------------------------------------------------------------ sequences
RECURSIVE SelectRows(_, _)
SelectRows(df, keep) ==
    IF df = <<>> THEN <<>>
    ELSE LET rest == SelectRows(Tail(df), keep)
         IN IF Head(df) \in keep THEN <<Head(df)>> \o rest ELSE rest

RECURSIVE InsertNum(_, _)
InsertNum(sorted, v) ==
    IF sorted = <<>> THEN <<v>>
    ELSE IF v < Head(sorted) THEN <<v>> \o sorted
    ELSE <<Head(sorted)>> \o InsertNum(Tail(sorted), v)

RECURSIVE SortNums(_)
SortNums(vals) ==
    IF vals = <<>> THEN <<>>
    ELSE InsertNum(SortNums(SubSeq(vals, 1, Len(vals) - 1)), vals[Len(vals)])

\* g.sort_values("timestamp"): rows ascending by timestamp, equal timestamps
\* keep their input order
RECURSIVE InsertByTimestamp(_, _)
InsertByTimestamp(sorted, row) ==
    IF sorted = <<>> THEN <<row>>
    ELSE IF row.timestamp < Head(sorted).timestamp THEN <<row>> \o sorted
    ELSE <<Head(sorted)>> \o InsertByTimestamp(Tail(sorted), row)

SortByTimestamp_Unsorted(rows) == rows

RECURSIVE SortByTimestamp(_)
SortByTimestamp(rows) ==
    IF rows = <<>> THEN <<>>
    ELSE InsertByTimestamp(SortByTimestamp(SubSeq(rows, 1, Len(rows) - 1)),
                           rows[Len(rows)])

\* ------------------------------------------------------- interval validator
\* g["collection_interval"].dropna()
RECURSIVE dropna(_)
dropna(vals) ==
    IF vals = <<>> THEN <<>>
    ELSE IF IsNA(Head(vals)) THEN dropna(Tail(vals))
    ELSE <<Head(vals)>> \o dropna(Tail(vals))

\* Series.median(): the middle value, or the mean of the two middle values
median(vals) ==
    LET s == SortNums(vals)
        n == Len(s)
    IN IF n % 2 = 1 THEN s[(n + 1) \div 2]
       ELSE IF s[n \div 2 + 1] = Inf THEN Inf
       ELSE (s[n \div 2] + s[n \div 2 + 1]) \div 2

Intervals(g) == [k \in 1..Len(g) |-> g[k].collection_interval]

\* default_interval = float(median of the non-missing values, or 300.0)
DefaultInterval(g) ==
    IF dropna(Intervals(g)) # <<>> THEN median(dropna(Intervals(g)))
    ELSE SystemDefaultInterval

Validate_NoFiniteCheck(raw, default) ==
    LET picked == IF raw = None \/ raw = 0 THEN default ELSE raw
    IN IF picked <= 0 THEN default ELSE picked

\* interv = float(interv or default_interval); not finite or <= 0 raises, and
\* the except branch substitutes default_interval
Validate(raw, default) ==
    LET picked == IF raw = None \/ raw = 0 THEN default ELSE raw
    IN IF ~isfinite(picked) \/ picked <= 0 THEN default ELSE picked

\* -------------------------------------------------------------------- state
VARIABLES
    df,                \* the input data frame of the call (sequence of rows)
    pc,                \* position of the call: "groups", "walk", "done", "raised"
    done_keys,         \* group keys whose group has been walked
    g,                 \* the sorted rows of the group being walked
    idx,               \* index in g of the row the loop reads next
    current,           \* the open accumulator: <<>> (None) or <<session>>
    prev_row,          \* the previous row of the loop: <<>> (None) or <<row>>
    default_interval,  \* the group default of the group being walked
    loc,               \* locals of the last loop iteration
    sessions,          \* the list of closed sessions
    sess_df,           \* the returned session table
    df_steam,          \* steam game activity rows handed to the merge
    df_discord,        \* discord game activity rows handed to the merge
    merged,            \* the frame the merge returns
    entry,             \* the function that was called
    now_ts,            \* int(time.time()) read by build_voice_24h_timeline
    call_no,           \* number of the call on this engine, from 1
    first_df,          \* the input frame of the first call, once it returned
    first_out          \* <<pc, sess_df>> of the first call, once it returned

loopVars == <<df, done_keys, g, idx, current, prev_row, default_interval, loc,
              sessions, sess_df>>

mergeVars == <<df_steam, df_discord, merged>>

callVars == <<entry, now_ts, call_no, first_df, first_out>>

\* state of the callers of the session loops and of the services around them
VARIABLES
    ranking,           \* the frame newsletter_query_get_longest_sessions returns
    user_steam_ids,    \* data["user_steam_ids"], the configured Steam users
    steam_pc,          \* position in collect_steam_data
    user_idx,          \* index in user_steam_ids of the user of the for loop
    attempt,           \* the retry counter of the while loop
    user_details,      \* result of the fetch of this user, or None
    calls,             \* per user: the calls of get_user_details in this run
    last_result,       \* per user: how the latest get_user_details call ended
    sleeps,            \* per user: the backoff sleeps, in half seconds
    steam_rows,        \* the users inserted into steam_game_activity
    lock,              \* FigureCache._lock: the threads that hold it (none or one)
    figures_ref,       \* FigureCache._figures: the dict object it refers to
    heap,              \* the dict objects: object id -> set of <<key, figure>> items
    bg_pc,             \* position of the background refresh thread
    bg_figures,        \* the local "figures" of _background_refresh (object id)
    builds,            \* figure builds started so far
    req_pc,            \* per request thread: its position in get()
    req_src,           \* per request thread: the object read from self._figures
    req_out,           \* per request thread: the dict that dict(...) fills
    req_todo,          \* per request thread: the keys dict(...) still has to copy
    req_result,        \* per request thread: the object get() returned
    gets,              \* get() calls started so far
    published,         \* the mappings set() has stored so far
    clock,             \* time.time(), in half seconds
    ttl_seconds,       \* WebDataLoader.ttl_seconds
    entries,           \* per cache: <<>> (None) or <<the _CacheEntry>>
    queries,           \* database queries made so far; a query's frame is its number
    load_call,         \* the latest load call: <<cache, force>>, or <<>>
    load_result,       \* the frame the latest load call returned
    loads,             \* load calls made so far
    ticks,             \* times the clock has advanced between calls
    pipeline,          \* the game pipeline that is running: "provider", "database" or "none"
    provider_out,      \* <<pc, game_intervals>> of load_all, once it returned
    DATA_COLLECTION_INTERVAL,\* config.DATA_COLLECTION_INTERVAL
    core_pc,           \* position of core_loop
    wall,              \* the local wall clock: day of the run, hour, minute
    epoch,             \* the calendar day the run started on: its tm_yday and tm_wday
    now_tm,            \* the local "now" of core_loop: time.localtime(), or <<>>
    interval_minutes,  \* the local interval_minutes of core_loop
    last_weekly_newsletter_day,\* the local of core_loop
    last_monthly_newsletter_day,\* the local of core_loop
    weekly_log,        \* create_weekly_newsletter calls of the current calendar day
    monthly_log,       \* create_monthly_newsletter calls of the current calendar day
    discord_result,    \* how collect_discord_data ended in this iteration
    steam_result,      \* how collect_steam_data ended in this iteration
    iterations         \* iterations of the while loop completed so far

rankVars == <<ranking>>

steamVars == <<user_steam_ids, steam_pc, user_idx, attempt, user_details, calls, last_result, sleeps, steam_rows>>

cacheVars == <<lock, figures_ref, heap, bg_pc, bg_figures, builds, req_pc, req_src, req_out, req_todo, req_result, gets, published>>

loaderVars == <<clock, ttl_seconds, entries, queries, load_call, load_result, loads, ticks>>

pipeVars == <<pipeline, provider_out>>

coreVars == <<DATA_COLLECTION_INTERVAL, core_pc, wall, epoch, now_tm, interval_minutes, last_weekly_newsletter_day, last_monthly_newsletter_day, weekly_log, monthly_log, discord_result, steam_result, iterations>>

serviceVars == <<rankVars, steamVars, cacheVars, loaderVars, pipeVars, coreVars>>

\* the service variables an action of one service leaves alone
exceptRank == <<steamVars, cacheVars, loaderVars, pipeVars, coreVars>>

exceptSteam == <<rankVars, cacheVars, loaderVars, pipeVars, coreVars>>

exceptCache == <<rankVars, steamVars, loaderVars, pipeVars, coreVars>>

exceptLoader == <<rankVars, steamVars, cacheVars, pipeVars, coreVars>>

exceptPipe == <<rankVars, steamVars, cacheVars, loaderVars, coreVars>>

exceptCore == <<rankVars, steamVars, cacheVars, loaderVars, pipeVars>>

\* the variables of the session loops and merges
engineVars == <<pc, loopVars, mergeVars, callVars>>

vars == <<df, pc, done_keys, g, idx, current, prev_row, default_interval, loc,
          sessions, sess_df, df_steam, df_discord, merged, entry, now_ts,
          call_no, first_df, first_out, serviceVars>>

\* no newsletter query has returned
RankIdle == ranking = <<>>

\* collect_steam_data has not been called
SteamIdle ==
    /\ user_steam_ids = <<>>
    /\ steam_pc = "idle"
    /\ user_idx = 1
    /\ attempt = 0
    /\ user_details = "None"
    /\ calls = <<>>
    /\ last_result = <<>>
    /\ sleeps = <<>>
    /\ steam_rows = <<>>

\* FigureCache.__init__: an unlocked lock and an empty dict; no thread started
CacheIdle ==
    /\ lock = {}
    /\ figures_ref = 1
    /\ heap = <<{}>>
    /\ bg_pc = "idle"
    /\ bg_figures = 0
    /\ builds = 0
    /\ req_pc = <<>>
    /\ req_src = <<>>
    /\ req_out = <<>>
    /\ req_todo = <<>>
    /\ req_result = <<>>
    /\ gets = 0
    /\ published = {}

\* no WebDataLoader has been constructed
LoaderIdle ==
    /\ clock = 0
    /\ ttl_seconds = 0
    /\ entries = <<>>
    /\ queries = 0
    /\ load_call = <<>>
    /\ load_result = 0
    /\ loads = 0
    /\ ticks = 0

\* no game pipeline is running
PipeIdle ==
    /\ pipeline = "none"
    /\ provider_out = <<>>

\* core_loop has not been started
CoreIdle ==
    /\ DATA_COLLECTION_INTERVAL = 0
    /\ core_pc = "idle"
    /\ wall = <<>>
    /\ epoch = <<>>
    /\ now_tm = <<>>
    /\ interval_minutes = 0
    /\ last_weekly_newsletter_day = None
    /\ last_monthly_newsletter_day = None
    /\ weekly_log = <<>>
    /\ monthly_log = <<>>
    /\ discord_result = "none"
    /\ steam_result = "none"
    /\ iterations = 0

\* the services before their first call
ServicesIdle == RankIdle /\ SteamIdle /\ CacheIdle /\ LoaderIdle /\ PipeIdle /\ CoreIdle

\* the services other than one service, before their first call
IdleExceptRank == SteamIdle /\ CacheIdle /\ LoaderIdle /\ PipeIdle /\ CoreIdle

IdleExceptSteam == RankIdle /\ CacheIdle /\ LoaderIdle /\ PipeIdle /\ CoreIdle

IdleExceptCache == RankIdle /\ SteamIdle /\ LoaderIdle /\ PipeIdle /\ CoreIdle

IdleExceptLoader == RankIdle /\ SteamIdle /\ CacheIdle /\ PipeIdle /\ CoreIdle

IdleExceptPipe == RankIdle /\ SteamIdle /\ CacheIdle /\ LoaderIdle /\ CoreIdle

IdleExceptCore == RankIdle /\ SteamIdle /\ CacheIdle /\ LoaderIdle /\ PipeIdle

\* --------------------------------------------------------------- input sets
Users == {"u1"}
VoiceUsers == {"u1", "u2"}
MergeUsers == {"u1", "u2"}
MergeGames == {"X", "Y"}
MergeIntervalValues == {None, 120}
Games == {"X"}
Sources == {"discord", "steam"}
Channels == {"A", "B"}
Timestamps == 0..MaxTs
IntervalValues == {None, NaN, Inf, 0, -2, 2, 6}

\* lexicographic order of the strings that occur as group keys
StrRank == [s \in {"A", "B", "X", "Y", "discord", "steam", "u1", "u2"} |->
              CASE s = "A" -> 1 [] s = "B" -> 2 [] s = "X" -> 3 [] s = "Y" -> 4
                [] s = "discord" -> 5 [] s = "steam" -> 6 [] s = "u1" -> 7
                [] s = "u2" -> 8]

\* the interval values of the frames that hold more than one group or channel
FewIntervalValues == {None, 2}

GameRows == [timestamp : Nat, user_name : Users, game_name : Games,
             source : Sources, collection_interval : IntervalValues]

VoiceRows == [timestamp : Nat, user_name : VoiceUsers,
              channel_name : Channels, collection_interval : IntervalValues]

\* the storage layer returns rows ORDER BY timestamp ASC and the merge sorts by
\* (user_name, timestamp): the frames handed to the loops are in timestamp order
TimeOrdered(stamps) ==
    \A k \in 1..(Len(stamps) - 1) : stamps[k] <= stamps[k + 1]

StampListsTo(n, last) == {stamps \in [1..n -> 0..last] : TimeOrdered(stamps)}

StampLists(n) == StampListsTo(n, MaxTs)

\* the game frames of at most rows rows with timestamps up to last whose
\* (user_name, game_name, source, collection_interval) cells are drawn from cells
GameFrameOf(frame, rows, last, cells) ==
    \E n \in 0..rows : \E stamps \in StampListsTo(n, last) :
        \E c \in [1..n -> cells] :
            frame = [k \in 1..n |->
                       [timestamp |-> stamps[k], user_name |-> c[k][1],
                        game_name |-> c[k][2], source |-> c[k][3],
                        collection_interval |-> c[k][4]]]

\* input frames of the game loop: every interval value within one group, or a
\* few interval values spread over the groups
GameFrameUpTo(frame, rows) ==
    \/ GameFrameOf(frame, rows, MaxTs,
                   Users \X Games \X {"steam"} \X IntervalValues)
    \/ GameFrameOf(frame, rows, MaxTs,
                   Users \X Games \X Sources \X FewIntervalValues)

IsGameFrame(frame) == GameFrameUpTo(frame, MaxRows)

\* the voice frames of at most rows rows whose (user_name, channel_name,
\* collection_interval) cells are drawn from cells
VoiceFrameOf(frame, rows, cells) ==
    \E n \in 0..rows : \E stamps \in StampLists(n) :
        \E c \in [1..n -> cells] :
            frame = [k \in 1..n |->
                       [timestamp |-> stamps[k], user_name |-> c[k][1],
                        channel_name |-> c[k][2],
                        collection_interval |-> c[k][3]]]

\* input frames of the voice loop: every interval value within one channel of
\* one user, or a few interval values spread over two channels of one user, or
\* over two users of one channel
VoiceFrameUpTo(frame, rows) ==
    \/ VoiceFrameOf(frame, rows, Users \X {"A"} \X IntervalValues)
    \/ VoiceFrameOf(frame, rows, Users \X Channels \X FewIntervalValues)
    \/ VoiceFrameOf(frame, rows, VoiceUsers \X {"A"} \X FewIntervalValues)

IsVoiceFrame(frame) == VoiceFrameUpTo(frame, MaxRows)

NoLocals == [ts |-> None, interv |-> None, snapshot_end |-> None, gap |-> None,
             prev_interv |-> None, max_gap |-> None]

MaxGap_Sum(prev_interv, interv) == FTwice(FAdd(prev_interv, interv))

\* max_gap = 2 * max(prev_interv, interv)
MaxGap(prev_interv, interv) == FTwice(FMax(prev_interv, interv))

\* ---------------------------------------------------------- game session loop
GameKey(row) == <<row.user_name, row.game_name, row.source>>

GameKeyLess(a, b) ==
    \/ StrRank[a[1]] < StrRank[b[1]]
    \/ a[1] = b[1] /\ StrRank[a[2]] < StrRank[b[2]]
    \/ a[1] = b[1] /\ a[2] = b[2] /\ StrRank[a[3]] < StrRank[b[3]]

GameKeysOf(frame) == {GameKey(frame[k]) : k \in 1..Len(frame)}

\* the rows of a frame, as a set
FrameRows(frame) == {frame[k] : k \in 1..Len(frame)}

GameGroup_IgnoreSource(frame, key) ==
    SelectRows(frame, {r \in FrameRows(frame) :
                          r.user_name = key[1] /\ r.game_name = key[2]})

\* df.groupby(["user_name", "game_name", "source"]) yields the groups in key
\* order; each group keeps the rows of its key in frame order
GameGroup(frame, key) ==
    SelectRows(frame, {r \in FrameRows(frame) : GameKey(r) = key})

NextGameKey(frame, walked) ==
    CHOOSE key \in GameKeysOf(frame) \ walked :
        \A other \in GameKeysOf(frame) \ walked :
            other = key \/ GameKeyLess(key, other)

NewGameSession(row, snapshot_end) ==
    [user_name |-> row.user_name, game_name |-> row.game_name,
     source |-> row.source, start_ts |-> row.timestamp, end_ts |-> snapshot_end]

GameMergeable_Strict(gap, max_gap) == gap < max_gap

\* if gap <= max_gap: merge
GameMergeable(gap, max_gap) == gap <= max_gap

MergeInto_Overwrite(cur, snapshot_end) == [cur EXCEPT !.end_ts = snapshot_end]

\* if snapshot_end > current["end_ts"]: current["end_ts"] = snapshot_end
MergeInto(cur, snapshot_end) ==
    IF snapshot_end > cur.end_ts THEN [cur EXCEPT !.end_ts = snapshot_end]
    ELSE cur

AppendIfPositive_Always(list, cur) == Append(list, cur)

\* if current["end_ts"] > current["start_ts"]: sessions.append(current)
AppendIfPositive(list, cur) ==
    IF cur.end_ts > cur.start_ts THEN Append(list, cur) ELSE list

\* no call has returned on this engine yet
FirstCall ==
    /\ call_no = 1
    /\ first_df = <<>>
    /\ first_out = <<>>

InitGame ==
    /\ IsGameFrame(df)
    /\ pc = "groups"
    /\ done_keys = {}
    /\ g = <<>>
    /\ idx = 1
    /\ current = <<>>
    /\ prev_row = <<>>
    /\ default_interval = SystemDefaultInterval
    /\ loc = NoLocals
    /\ sessions = <<>>
    /\ sess_df = <<>>
    /\ df_steam = <<>>
    /\ df_discord = <<>>
    /\ merged = <<>>
    /\ entry = "game"
    /\ now_ts = 0
    /\ FirstCall
    /\ ServicesIdle

\* for (user, game, source), g in df.groupby(...): sort the group, reset the
\* accumulator, compute the group default
GameBeginGroup ==
    /\ entry = "game"
    /\ pc = "groups"
    /\ GameKeysOf(df) \ done_keys # {}
    /\ LET key == NextGameKey(df, done_keys)
           grp == SortByTimestamp(GameGroup(df, key))
       IN /\ g' = grp
          /\ default_interval' = DefaultInterval(grp)
          /\ done_keys' = done_keys \cup {key}
    /\ idx' = 1
    /\ current' = <<>>
    /\ prev_row' = <<>>
    /\ pc' = "walk"
    /\ UNCHANGED <<serviceVars, callVars, mergeVars, df, loc, sessions, sess_df>>

GameReturnEmpty_Raises ==
    /\ entry = "game"
    /\ pc = "groups" /\ df = <<>>
    /\ pc' = "raised"
    /\ UNCHANGED <<serviceVars, callVars, mergeVars, df, done_keys, g, idx, current, prev_row,
                   default_interval, loc, sessions, sess_df>>

\* if df.empty: return pd.DataFrame(columns=[...])
GameReturnEmpty ==
    /\ entry = "game"
    /\ pc = "groups" /\ df = <<>>
    /\ pc' = "done"
    /\ sess_df' = <<>>
    /\ UNCHANGED <<serviceVars, callVars, mergeVars, df, done_keys, g, idx, current, prev_row,
                   default_interval, loc, sessions>>

\* one iteration of "for _, row in g.iterrows()" with current is None
GameOpen ==
    /\ entry = "game"
    /\ pc = "walk" /\ idx <= Len(g) /\ current = <<>>
    /\ LET row == g[idx]
           interv == Validate(row.collection_interval, default_interval)
           snapshot_end == FAdd(row.timestamp, interv)
       IN /\ current' = <<NewGameSession(row, snapshot_end)>>
          /\ loc' = [NoLocals EXCEPT !.ts = row.timestamp, !.interv = interv,
                                     !.snapshot_end = snapshot_end]
          /\ prev_row' = <<row>>
    /\ idx' = idx + 1
    /\ UNCHANGED <<serviceVars, callVars, mergeVars, df, pc, done_keys, g, default_interval, sessions, sess_df>>

\* one iteration with an open accumulator: merge when gap <= max_gap, else
\* close the accumulator and open a new one at this row
GameStep ==
    /\ entry = "game"
    /\ pc = "walk" /\ idx <= Len(g) /\ current # <<>>
    /\ LET row == g[idx]
           interv == Validate(row.collection_interval, default_interval)
           snapshot_end == FAdd(row.timestamp, interv)
           gap == IF prev_row # <<>> THEN row.timestamp - prev_row[1].timestamp
                  ELSE 0
           prev_interv == Validate(IF prev_row # <<>>
                                   THEN prev_row[1].collection_interval
                                   ELSE default_interval, default_interval)
           max_gap == MaxGap(prev_interv, interv)
       IN /\ loc' = [ts |-> row.timestamp, interv |-> interv,
                     snapshot_end |-> snapshot_end, gap |-> gap,
                     prev_interv |-> prev_interv, max_gap |-> max_gap]
          /\ IF GameMergeable(gap, max_gap)
             THEN /\ current' = <<MergeInto(current[1], snapshot_end)>>
                  /\ sessions' = sessions
             ELSE /\ sessions' = AppendIfPositive(sessions, current[1])
                  /\ current' = <<NewGameSession(row, snapshot_end)>>
          /\ prev_row' = <<row>>
    /\ idx' = idx + 1
    /\ UNCHANGED <<serviceVars, callVars, mergeVars, df, pc, done_keys, g, default_interval, sess_df>>

\* after the loop: if current is not None and end_ts > start_ts: append
GameEndGroup ==
    /\ entry = "game"
    /\ pc = "walk" /\ idx > Len(g)
    /\ sessions' = IF current # <<>> THEN AppendIfPositive(sessions, current[1])
                   ELSE sessions
    /\ pc' = "groups"
    /\ UNCHANGED <<serviceVars, callVars, mergeVars, df, done_keys, g, idx, current, prev_row, default_interval,
                   loc, sess_df>>

\* sess_df: pd.to_datetime raises on an infinite end_ts; otherwise add
\* duration_seconds and keep the rows with duration_seconds > 0
WithDuration(list) ==
    [k \in 1..Len(list) |->
        [user_name |-> list[k].user_name, game_name |-> list[k].game_name,
         source |-> list[k].source, start_ts |-> list[k].start_ts,
         end_ts |-> list[k].end_ts,
         duration_seconds |-> list[k].end_ts - list[k].start_ts]]

RECURSIVE PositiveDuration(_)
PositiveDuration(table) ==
    IF table = <<>> THEN <<>>
    ELSE IF Head(table).duration_seconds > 0
         THEN <<Head(table)>> \o PositiveDuration(Tail(table))
         ELSE PositiveDuration(Tail(table))

HasInfiniteEnd(list) == \E k \in 1..Len(list) : list[k].end_ts = Inf

GameFinish ==
    /\ entry = "game"
    /\ pc = "groups" /\ df # <<>>
    /\ GameKeysOf(df) \ done_keys = {}
    /\ IF HasInfiniteEnd(sessions)
       THEN /\ pc' = "raised"
            /\ sess_df' = sess_df
       ELSE /\ pc' = "done"
            /\ sess_df' = PositiveDuration(WithDuration(sessions))
    /\ UNCHANGED <<serviceVars, callVars, mergeVars, df, done_keys, g, idx, current, prev_row, default_interval,
                   loc, sessions>>

NextGame ==
    GameReturnEmpty \/ GameBeginGroup \/ GameOpen \/ GameStep \/ GameEndGroup \/ GameFinish

SpecGame == InitGame /\ [][NextGame]_vars

\* --------------------------------------------------------- voice session loop
VoiceKeysOf(frame) == {frame[k].user_name : k \in 1..Len(frame)}

VoiceGroup_ChannelA(frame, user) ==
    SelectRows(frame, {r \in VoiceRows : r.user_name = user /\ r.channel_name = "A"})

\* df.groupby("user_name"): the groups in key order, rows in frame order
VoiceGroup(frame, user) ==
    SelectRows(frame, {r \in VoiceRows : r.user_name = user})

NextVoiceKey(frame, walked) ==
    CHOOSE user \in VoiceKeysOf(frame) \ walked :
        \A other \in VoiceKeysOf(frame) \ walked :
            StrRank[user] <= StrRank[other]

\* chan = row.get("channel_name", "?") or "?"
ChannelOf(row) == IF row.channel_name = "" THEN "?" ELSE row.channel_name

VoiceMergeable_GapOnly(chan, cur, gap, max_gap) == gap <= max_gap

\* if chan == current["channel_name"] and gap <= max_gap: merge
VoiceMergeable(chan, cur, gap, max_gap) ==
    chan = cur.channel_name /\ gap <= max_gap

NewVoiceSession(row, snapshot_end) ==
    [user_name |-> row.user_name, channel_name |-> ChannelOf(row),
     start_ts |-> row.timestamp, end_ts |-> snapshot_end]

InitVoice ==
    /\ IsVoiceFrame(df)
    /\ pc = "groups"
    /\ done_keys = {}
    /\ g = <<>>
    /\ idx = 1
    /\ current = <<>>
    /\ prev_row = <<>>
    /\ default_interval = SystemDefaultInterval
    /\ loc = NoLocals
    /\ sessions = <<>>
    /\ sess_df = <<>>
    /\ df_steam = <<>>
    /\ df_discord = <<>>
    /\ merged = <<>>
    /\ entry = "voice"
    /\ now_ts = 0
    /\ FirstCall
    /\ ServicesIdle

\* for user, g in df.groupby("user_name"): sort the group, reset the
\* accumulator, compute the group default
VoiceBeginGroup ==
    /\ entry = "voice"
    /\ pc = "groups"
    /\ VoiceKeysOf(df) \ done_keys # {}
    /\ LET user == NextVoiceKey(df, done_keys)
           grp == SortByTimestamp(VoiceGroup(df, user))
       IN /\ g' = grp
          /\ default_interval' = DefaultInterval(grp)
          /\ done_keys' = done_keys \cup {user}
    /\ idx' = 1
    /\ current' = <<>>
    /\ prev_row' = <<>>
    /\ pc' = "walk"
    /\ UNCHANGED <<serviceVars, callVars, mergeVars, df, loc, sessions, sess_df>>

\* if df_voice.empty: return pd.DataFrame(columns=[...])
VoiceReturnEmpty ==
    /\ entry = "voice"
    /\ pc = "groups" /\ df = <<>>
    /\ pc' = "done"
    /\ sess_df' = <<>>
    /\ UNCHANGED <<serviceVars, callVars, mergeVars, df, done_keys, g, idx, current, prev_row,
                   default_interval, loc, sessions>>

\* one iteration of "for _, row in g.iterrows()" with current is None
VoiceOpen ==
    /\ entry = "voice"
    /\ pc = "walk" /\ idx <= Len(g) /\ current = <<>>
    /\ LET row == g[idx]
           interv == Validate(row.collection_interval, default_interval)
           snapshot_end == FAdd(row.timestamp, interv)
       IN /\ current' = <<NewVoiceSession(row, snapshot_end)>>
          /\ loc' = [NoLocals EXCEPT !.ts = row.timestamp, !.interv = interv,
                                     !.snapshot_end = snapshot_end]
          /\ prev_row' = <<row>>
    /\ idx' = idx + 1
    /\ UNCHANGED <<serviceVars, callVars, mergeVars, df, pc, done_keys, g, default_interval, sessions, sess_df>>

\* one iteration with an open accumulator: merge when the channel is that of
\* the accumulator and gap <= max_gap, else close it and open a new one
VoiceStep ==
    /\ entry = "voice"
    /\ pc = "walk" /\ idx <= Len(g) /\ current # <<>>
    /\ LET row == g[idx]
           chan == ChannelOf(row)
           interv == Validate(row.collection_interval, default_interval)
           snapshot_end == FAdd(row.timestamp, interv)
           gap == IF prev_row # <<>> THEN row.timestamp - prev_row[1].timestamp
                  ELSE 0
           prev_interv == Validate(IF prev_row # <<>>
                                   THEN prev_row[1].collection_interval
                                   ELSE default_interval, default_interval)
           max_gap == MaxGap(prev_interv, interv)
       IN /\ loc' = [ts |-> row.timestamp, interv |-> interv,
                     snapshot_end |-> snapshot_end, gap |-> gap,
                     prev_interv |-> prev_interv, max_gap |-> max_gap]
          /\ IF VoiceMergeable(chan, current[1], gap, max_gap)
             THEN /\ current' = <<MergeInto(current[1], snapshot_end)>>
                  /\ sessions' = sessions
             ELSE /\ sessions' = AppendIfPositive(sessions, current[1])
                  /\ current' = <<NewVoiceSession(row, snapshot_end)>>
          /\ prev_row' = <<row>>
    /\ idx' = idx + 1
    /\ UNCHANGED <<serviceVars, callVars, mergeVars, df, pc, done_keys, g, default_interval, sess_df>>

\* after the loop: if current is not None and end_ts > start_ts: append
VoiceEndGroup ==
    /\ entry = "voice"
    /\ pc = "walk" /\ idx > Len(g)
    /\ sessions' = IF current # <<>> THEN AppendIfPositive(sessions, current[1])
                   ELSE sessions
    /\ pc' = "groups"
    /\ UNCHANGED <<serviceVars, callVars, mergeVars, df, done_keys, g, idx, current, prev_row, default_interval,
                   loc, sess_df>>

VoiceWithDuration(list) ==
    [k \in 1..Len(list) |->
        [user_name |-> list[k].user_name,
         channel_name |-> list[k].channel_name,
         start_ts |-> list[k].start_ts, end_ts |-> list[k].end_ts,
         duration_seconds |-> list[k].end_ts - list[k].start_ts]]

VoiceFinish ==
    /\ entry = "voice"
    /\ pc = "groups" /\ df # <<>>
    /\ VoiceKeysOf(df) \ done_keys = {}
    /\ IF HasInfiniteEnd(sessions)
       THEN /\ pc' = "raised"
            /\ sess_df' = sess_df
       ELSE /\ pc' = "done"
            /\ sess_df' = PositiveDuration(VoiceWithDuration(sessions))
    /\ UNCHANGED <<serviceVars, callVars, mergeVars, df, done_keys, g, idx, current, prev_row, default_interval,
                   loc, sessions>>

NextVoice ==
    VoiceReturnEmpty \/ VoiceBeginGroup \/ VoiceOpen \/ VoiceStep \/ VoiceEndGroup \/ VoiceFinish

SpecVoice == InitVoice /\ [][NextVoice]_vars

\* ------------------------------- game loop, polling interval changes mid-stream
\* input frames whose timestamps reach three times the smaller valid interval:
\* one group with missing, zero, negative and two valid intervals
PollFrame(frame) ==
    GameFrameOf(frame, MaxRows, MaxPollTs,
                Users \X Games \X {"steam"} \X {None, 0, -2, 2, 6})

InitPoll ==
    /\ PollFrame(df)
    /\ pc = "groups"
    /\ done_keys = {}
    /\ g = <<>>
    /\ idx = 1
    /\ current = <<>>
    /\ prev_row = <<>>
    /\ default_interval = SystemDefaultInterval
    /\ loc = NoLocals
    /\ sessions = <<>>
    /\ sess_df = <<>>
    /\ df_steam = <<>>
    /\ df_discord = <<>>
    /\ merged = <<>>
    /\ entry = "game"
    /\ now_ts = 0
    /\ FirstCall
    /\ ServicesIdle

SpecPoll == InitPoll /\ [][NextGame]_vars

\* ------------------------------------------- repeated calls of the game loop
\* input frames of the repeated calls: one group, a missing and a valid interval
CallFrame(frame) ==
    GameFrameOf(frame, MaxCallRows, MaxTs,
                Users \X Games \X {"steam"} \X {None, 2})

InitCalls ==
    /\ CallFrame(df)
    /\ pc = "groups"
    /\ done_keys = {}
    /\ g = <<>>
    /\ idx = 1
    /\ current = <<>>
    /\ prev_row = <<>>
    /\ default_interval = SystemDefaultInterval
    /\ loc = NoLocals
    /\ sessions = <<>>
    /\ sess_df = <<>>
    /\ df_steam = <<>>
    /\ df_discord = <<>>
    /\ merged = <<>>
    /\ entry = "game"
    /\ now_ts = 0
    /\ FirstCall
    /\ ServicesIdle

FreshSessions_Carried == sessions

\* sessions = []
FreshSessions == <<>>

\* the next call of _compute_game_activity_intervals on the same DataProvider:
\* the second call gets another frame, every later call the frame of the first;
\* the function keeps nothing on self, all its names are locals of the call
GameNewCall ==
    /\ entry = "game"
    /\ pc \in {"done", "raised"}
    /\ call_no < MaxCalls
    /\ call_no' = call_no + 1
    /\ IF call_no = 1
       THEN /\ first_df' = df
            /\ first_out' = <<pc, sess_df>>
            /\ CallFrame(df')
            /\ df' # df
       ELSE /\ first_df' = first_df
            /\ first_out' = first_out
            /\ df' = first_df
    /\ pc' = "groups"
    /\ done_keys' = {}
    /\ g' = <<>>
    /\ idx' = 1
    /\ current' = <<>>
    /\ prev_row' = <<>>
    /\ default_interval' = SystemDefaultInterval
    /\ loc' = NoLocals
    /\ sessions' = FreshSessions
    /\ sess_df' = <<>>
    /\ UNCHANGED <<serviceVars, mergeVars, entry, now_ts>>

NextCalls == NextGame \/ GameNewCall

SpecCalls == InitCalls /\ [][NextCalls]_vars

\* ------------------------------------------------ voice timeline, last 24 h
\* cutoff_ts = now_ts - 24 * 3600
DayLength == 86400

CutoffTs(now) == now - DayLength

\* the clock readings of the calls: within the first day of the data (nothing
\* is cut off, sessions run past now) and a day after its first second
TimelineNow == {MaxTs, DayLength + 1}

\* recent = df[df["timestamp"] >= cutoff_ts]
Recent(frame, now) ==
    SelectRows(frame, {r \in VoiceRows : r.timestamp >= CutoffTs(now)})

\* interv = float(interv); float(None), not finite or <= 0 raise, and the except
\* branch substitutes default_interval
TimelineValidate(raw, default) ==
    IF raw = None \/ ~isfinite(raw) \/ raw <= 0 THEN default ELSE raw

\* start_ts.clip(lower=cutoff_ts); end_ts.clip(upper=now_ts); duration_seconds
TimelineClip(list, now) ==
    [k \in 1..Len(list) |->
        LET start == IF list[k].start_ts < CutoffTs(now) THEN CutoffTs(now)
                     ELSE list[k].start_ts
            end == IF list[k].end_ts > now THEN now ELSE list[k].end_ts
        IN [user_name |-> list[k].user_name,
            channel_name |-> list[k].channel_name,
            start_ts |-> start, end_ts |-> end,
            duration_seconds |-> end - start]]

\* input frames of the timeline: a few interval values spread over two users of
\* one channel, or a zero and a valid interval over two channels of one user
TimelineFrameUpTo(frame, rows) ==
    \/ VoiceFrameOf(frame, rows, VoiceUsers \X {"A"} \X FewIntervalValues)
    \/ VoiceFrameOf(frame, rows, Users \X Channels \X {0, 2})

InitTimeline ==
    /\ TimelineFrameUpTo(df, MaxRows)
    /\ now_ts \in TimelineNow
    /\ entry = "timeline"
    /\ pc = "start"
    /\ done_keys = {}
    /\ g = <<>>
    /\ idx = 1
    /\ current = <<>>
    /\ prev_row = <<>>
    /\ default_interval = SystemDefaultInterval
    /\ loc = NoLocals
    /\ sessions = <<>>
    /\ sess_df = <<>>
    /\ df_steam = <<>>
    /\ df_discord = <<>>
    /\ merged = <<>>
    /\ FirstCall
    /\ ServicesIdle

\* the early returns on an empty df or an empty recent, else the one
\* default_interval of the call: the median over all rows of recent
TimelineStart ==
    /\ entry = "timeline"
    /\ pc = "start"
    /\ IF Recent(df, now_ts) = <<>>
       THEN /\ pc' = "done"
            /\ default_interval' = default_interval
       ELSE /\ pc' = "groups"
            /\ default_interval' = DefaultInterval(Recent(df, now_ts))
    /\ UNCHANGED <<serviceVars, callVars, mergeVars, df, done_keys, g, idx, current, prev_row,
                   loc, sessions, sess_df>>

\* for user, g in recent.groupby("user_name"): sort the group, reset the
\* accumulator
TimelineBeginGroup ==
    /\ entry = "timeline"
    /\ pc = "groups"
    /\ VoiceKeysOf(Recent(df, now_ts)) \ done_keys # {}
    /\ LET user == NextVoiceKey(Recent(df, now_ts), done_keys)
       IN /\ g' = SortByTimestamp(VoiceGroup(Recent(df, now_ts), user))
          /\ done_keys' = done_keys \cup {user}
    /\ idx' = 1
    /\ current' = <<>>
    /\ prev_row' = <<>>
    /\ pc' = "walk"
    /\ UNCHANGED <<serviceVars, callVars, mergeVars, df, default_interval, loc, sessions, sess_df>>

\* one iteration of "for _, row in g.iterrows()" with current is None
TimelineOpen ==
    /\ entry = "timeline"
    /\ pc = "walk" /\ idx <= Len(g) /\ current = <<>>
    /\ LET row == g[idx]
           interv == TimelineValidate(row.collection_interval, default_interval)
           snapshot_end == FAdd(row.timestamp, interv)
       IN /\ current' = <<NewVoiceSession(row, snapshot_end)>>
          /\ loc' = [NoLocals EXCEPT !.ts = row.timestamp, !.interv = interv,
                                     !.snapshot_end = snapshot_end]
          /\ prev_row' = <<row>>
    /\ idx' = idx + 1
    /\ UNCHANGED <<serviceVars, callVars, mergeVars, df, pc, done_keys, g, default_interval, sessions, sess_df>>

\* one iteration with an open accumulator
TimelineStep ==
    /\ entry = "timeline"
    /\ pc = "walk" /\ idx <= Len(g) /\ current # <<>>
    /\ LET row == g[idx]
           chan == ChannelOf(row)
           interv == TimelineValidate(row.collection_interval, default_interval)
           snapshot_end == FAdd(row.timestamp, interv)
           gap == IF prev_row # <<>> THEN row.timestamp - prev_row[1].timestamp
                  ELSE 0
           prev_interv == TimelineValidate(IF prev_row # <<>>
                                           THEN prev_row[1].collection_interval
                                           ELSE default_interval, default_interval)
           max_gap == MaxGap(prev_interv, interv)
       IN /\ loc' = [ts |-> row.timestamp, interv |-> interv,
                     snapshot_end |-> snapshot_end, gap |-> gap,
                     prev_interv |-> prev_interv, max_gap |-> max_gap]
          /\ IF VoiceMergeable(chan, current[1], gap, max_gap)
             THEN /\ current' = <<MergeInto(current[1], snapshot_end)>>
                  /\ sessions' = sessions
             ELSE /\ sessions' = AppendIfPositive(sessions, current[1])
                  /\ current' = <<NewVoiceSession(row, snapshot_end)>>
          /\ prev_row' = <<row>>
    /\ idx' = idx + 1
    /\ UNCHANGED <<serviceVars, callVars, mergeVars, df, pc, done_keys, g, default_interval, sess_df>>

\* after the loop: if current is not None and end_ts > start_ts: append
TimelineEndGroup ==
    /\ entry = "timeline"
    /\ pc = "walk" /\ idx > Len(g)
    /\ sessions' = IF current # <<>> THEN AppendIfPositive(sessions, current[1])
                   ELSE sessions
    /\ pc' = "groups"
    /\ UNCHANGED <<serviceVars, callVars, mergeVars, df, done_keys, g, idx, current, prev_row, default_interval,
                   loc, sess_df>>

\* sess_df: clip to [cutoff_ts, now_ts], keep the rows of positive duration;
\* these are the bars of the figure
TimelineFinish ==
    /\ entry = "timeline"
    /\ pc = "groups"
    /\ VoiceKeysOf(Recent(df, now_ts)) \ done_keys = {}
    /\ pc' = "done"
    /\ sess_df' = PositiveDuration(TimelineClip(sessions, now_ts))
    /\ UNCHANGED <<serviceVars, callVars, mergeVars, df, done_keys, g, idx, current, prev_row, default_interval,
                   loc, sessions>>

NextTimeline ==
    \/ TimelineStart \/ TimelineBeginGroup \/ TimelineOpen \/ TimelineStep
    \/ TimelineEndGroup \/ TimelineFinish

SpecTimeline == InitTimeline /\ [][NextTimeline]_vars

\* ------------------------------------------------------- precedence merge
\* the frames the merge receives: rows in timestamp order (ORDER BY timestamp
\* ASC), user_name already resolved
IsMergeInput(frame, n) ==
    \E stamps \in {st \in [1..n -> 0..MaxMergeTs] : TimeOrdered(st)} :
        \E cells \in [1..n -> MergeUsers \X MergeGames \X MergeIntervalValues] :
            frame = [k \in 1..n |->
                       [timestamp |-> stamps[k], user_name |-> cells[k][1],
                        game_name |-> cells[k][2],
                        collection_interval |-> cells[k][3]]]

\* df["minutes_per_snapshot"] = (df["collection_interval"].fillna(300) / 60)
minutes_per_snapshot(interval) ==
    (IF IsNA(interval) THEN SystemDefaultInterval ELSE interval) \div 60

\* steam['source'] = 'steam'; steam[['timestamp', 'user_name', 'game_name',
\* 'minutes_per_snapshot', 'source']]
ProviderColumns(frame, source) ==
    [k \in 1..Len(frame) |->
        [timestamp |-> frame[k].timestamp, user_name |-> frame[k].user_name,
         game_name |-> frame[k].game_name,
         minutes_per_snapshot |-> minutes_per_snapshot(frame[k].collection_interval),
         source |-> source]]

\* df_steam["source"] = "steam"; df_steam[["timestamp", "user_name",
\* "game_name", "collection_interval", "source"]]
DbColumns(frame, source) ==
    [k \in 1..Len(frame) |->
        [timestamp |-> frame[k].timestamp, user_name |-> frame[k].user_name,
         game_name |-> frame[k].game_name,
         collection_interval |-> frame[k].collection_interval,
         source |-> source]]

\* sort_values(by=['user_name', 'timestamp', 'source']) when bySource, and
\* sort_values(by=['user_name', 'timestamp']) otherwise; both keep the order of
\* rows with equal keys
RowBefore(a, b, bySource) ==
    \/ StrRank[a.user_name] < StrRank[b.user_name]
    \/ a.user_name = b.user_name /\ a.timestamp < b.timestamp
    \/ /\ bySource
       /\ a.user_name = b.user_name /\ a.timestamp = b.timestamp
       /\ StrRank[a.source] < StrRank[b.source]

RECURSIVE InsertRow(_, _, _)
InsertRow(sorted, row, bySource) ==
    IF sorted = <<>> THEN <<row>>
    ELSE IF RowBefore(row, Head(sorted), bySource) THEN <<row>> \o sorted
    ELSE <<Head(sorted)>> \o InsertRow(Tail(sorted), row, bySource)

RECURSIVE sort_values(_, _)
sort_values(frame, bySource) ==
    IF frame = <<>> THEN <<>>
    ELSE InsertRow(sort_values(SubSeq(frame, 1, Len(frame) - 1), bySource),
                   frame[Len(frame)], bySource)

MergeKey_WithGame(row) == <<row.user_name, row.timestamp, row.game_name>>

\* key = user_name.astype(str) + '_' + timestamp.astype(str); the rendering of
\* an integer timestamp holds no '_', so two keys are equal iff both parts are
MergeKey(row) == <<row.user_name, row.timestamp>>

KeysOf(frame) == {MergeKey(frame[k]) : k \in 1..Len(frame)}

\* combined[(combined['source'] == 'steam') | (~combined['key'].isin(steam_keys))]
RECURSIVE KeepRows(_, _)
KeepRows(frame, steam_keys) ==
    IF frame = <<>> THEN <<>>
    ELSE LET rest == KeepRows(Tail(frame), steam_keys)
         IN IF Head(frame).source = "steam"
               \/ MergeKey(Head(frame)) \notin steam_keys
            THEN <<Head(frame)>> \o rest ELSE rest

ProviderCombined_Swapped(steam, discord) ==
    IF steam = <<>> THEN steam
    ELSE IF discord = <<>> THEN discord
    ELSE steam \o discord

\* if steam.empty: discord; elif discord.empty: steam; else concat
ProviderCombined(steam, discord) ==
    IF steam = <<>> THEN discord
    ELSE IF discord = <<>> THEN steam
    ELSE steam \o discord

\* DataProvider._compute_game_activity
compute_game_activity(frame_steam, frame_discord) ==
    LET steam == ProviderColumns(frame_steam, "steam")
        discord == ProviderColumns(frame_discord, "discord")
        combined == sort_values(ProviderCombined(steam, discord), TRUE)
        result == KeepRows(combined, KeysOf(steam))
    IN sort_values(result, FALSE)

\* Database._build_dataframe from the concat on
build_dataframe(frame_steam, frame_discord) ==
    IF frame_steam = <<>> /\ frame_discord = <<>> THEN <<>>
    ELSE LET all == DbColumns(frame_steam, "steam")
                      \o DbColumns(frame_discord, "discord")
             sorted == sort_values(all, TRUE)
             steam_keys == {MergeKey(sorted[k]) :
                               k \in {i \in 1..Len(sorted) :
                                        sorted[i].source = "steam"}}
         IN KeepRows(sorted, steam_keys)

InitMerge ==
    /\ \E n \in 0..MaxMergeRows : \E m \in 0..(MaxMergeRows - n) :
         IsMergeInput(df_steam, n) /\ IsMergeInput(df_discord, m)
    /\ entry \in {"provider", "database"}
    /\ pc = entry
    /\ now_ts = 0
    /\ FirstCall
    /\ ServicesIdle
    /\ merged = <<>>
    /\ df = <<>>
    /\ done_keys = {}
    /\ g = <<>>
    /\ idx = 1
    /\ current = <<>>
    /\ prev_row = <<>>
    /\ default_interval = SystemDefaultInterval
    /\ loc = NoLocals
    /\ sessions = <<>>
    /\ sess_df = <<>>

\* DataProvider.load_all: df_game_merged = self._compute_game_activity(...)
ProviderMerge ==
    /\ pc = "provider"
    /\ merged' = compute_game_activity(df_steam, df_discord)
    /\ pc' = "provider_merged"
    /\ UNCHANGED <<serviceVars, callVars, loopVars, df_steam, df_discord>>

\* Database.query_get_game_activity_dataframe: df = self._build_dataframe(...)
DbBuild ==
    /\ pc = "database"
    /\ merged' = build_dataframe(df_steam, df_discord)
    /\ pc' = "database_merged"
    /\ UNCHANGED <<serviceVars, callVars, loopVars, df_steam, df_discord>>

NextMerge == ProviderMerge \/ DbBuild

SpecMerge == InitMerge /\ [][NextMerge]_vars

\* ------------------------------------------------------ every entry point
\* the locals of a call before its first statement
FreshLocals ==
    /\ done_keys = {}
    /\ g = <<>>
    /\ idx = 1
    /\ current = <<>>
    /\ prev_row = <<>>
    /\ default_interval = SystemDefaultInterval
    /\ loc = NoLocals
    /\ sessions = <<>>
    /\ sess_df = <<>>

\* one call of one entry point: the game loop, the voice loop, the timeline, or
\* one of the two merges, on a small input
InitEntry ==
    /\ FreshLocals
    /\ FirstCall
    /\ ServicesIdle
    /\ \/ /\ entry = "game" /\ pc = "groups"
          /\ GameFrameUpTo(df, MaxEntryRows)
          /\ now_ts = 0
          /\ df_steam = <<>> /\ df_discord = <<>> /\ merged = <<>>
       \/ /\ entry = "voice" /\ pc = "groups"
          /\ VoiceFrameUpTo(df, MaxEntryRows)
          /\ now_ts = 0
          /\ df_steam = <<>> /\ df_discord = <<>> /\ merged = <<>>
       \/ /\ entry = "timeline" /\ pc = "start"
          /\ TimelineFrameUpTo(df, MaxEntryRows)
          /\ now_ts \in TimelineNow
          /\ df_steam = <<>> /\ df_discord = <<>> /\ merged = <<>>
       \/ /\ entry \in {"provider", "database"} /\ pc = entry
          /\ \E n \in 0..MaxEntryRows : \E m \in 0..(MaxEntryRows - n) :
               IsMergeInput(df_steam, n) /\ IsMergeInput(df_discord, m)
          /\ now_ts = 0
          /\ df = <<>> /\ merged = <<>>

NextEntry == NextGame \/ NextVoice \/ NextTimeline \/ NextMerge

SpecEntry == InitEntry /\ [][NextEntry]_vars

\* ------------------------------------------ newsletter: longest sessions
\* frames of the newsletter range: one group with sessions of several
\* lengths, or several groups
\* a frame the precedence merge can return: no discord row at a user and
\* timestamp that has a steam row
IsMerged(frame) ==
    \A i, j \in 1..Len(frame) :
        ~ /\ frame[i].source = "steam" /\ frame[j].source = "discord"
          /\ frame[i].user_name = frame[j].user_name
          /\ frame[i].timestamp = frame[j].timestamp

RankFrame(frame) ==
    /\ \/ GameFrameOf(frame, MaxRows, MaxPollTs,
                      Users \X Games \X {"steam"} \X {2, 6})
       \/ GameFrameOf(frame, MaxRows, MaxPollTs,
                      MergeUsers \X Games \X Sources \X {2})
    /\ IsMerged(frame)

\* the key of groupby(["game_name", "user_name", "source"])
RankKey(row) == <<row.game_name, row.user_name, row.source>>

RankKeysOf(table) == {RankKey(table[k]) : k \in 1..Len(table)}

NextRankKey(table, walked) ==
    CHOOSE key \in RankKeysOf(table) \ walked :
        \A other \in RankKeysOf(table) \ walked :
            other = key \/ GameKeyLess(key, other)

DurationsOf(table, key) ==
    {table[k].duration_seconds : k \in {i \in 1..Len(table) : RankKey(table[i]) = key}}

DurationMax_Min(table, key) ==
    CHOOSE d \in DurationsOf(table, key) : \A e \in DurationsOf(table, key) : d <= e

\* ["duration_seconds"].max() of one group
DurationMax(table, key) ==
    CHOOSE d \in DurationsOf(table, key) : \A e \in DurationsOf(table, key) : d >= e

\* groupby(...)["duration_seconds"].max().reset_index(): one row per key, in
\* key order
RECURSIVE GroupedMax(_, _)
GroupedMax(table, walked) ==
    IF RankKeysOf(table) \ walked = {} THEN <<>>
    ELSE LET key == NextRankKey(table, walked)
         IN <<[game_name |-> key[1], user_name |-> key[2], source |-> key[3],
               duration_seconds |-> DurationMax(table, key)]>>
            \o GroupedMax(table, walked \cup {key})

\* sort_values(by="duration_seconds", ascending=False): a row goes behind the
\* rows that are at least as long
RECURSIVE InsertByDuration(_, _)
InsertByDuration(sorted, row) ==
    IF sorted = <<>> THEN <<row>>
    ELSE IF row.duration_seconds > Head(sorted).duration_seconds
         THEN <<row>> \o sorted
    ELSE <<Head(sorted)>> \o InsertByDuration(Tail(sorted), row)

RECURSIVE SortByDuration(_)
SortByDuration(rows) ==
    IF rows = <<>> THEN <<>>
    ELSE InsertByDuration(SortByDuration(SubSeq(rows, 1, Len(rows) - 1)),
                          rows[Len(rows)])

\* Database.newsletter_query_get_longest_sessions, from the session table on
longest_sessions(table) == SortByDuration(GroupedMax(table, {}))

InitRanking ==
    /\ RankFrame(df)
    /\ pc = "groups"
    /\ entry = "game"
    /\ now_ts = 0
    /\ df_steam = <<>> /\ df_discord = <<>> /\ merged = <<>>
    /\ FreshLocals
    /\ FirstCall
    /\ RankIdle
    /\ IdleExceptRank

\* grouped = game_activity.groupby(...).max().reset_index(); return
\* grouped.sort_values(by="duration_seconds", ascending=False)
NewsletterLongestSessions ==
    /\ entry = "game"
    /\ pc = "done"
    /\ ranking' = longest_sessions(sess_df)
    /\ pc' = "ranked"
    /\ UNCHANGED <<exceptRank, callVars, mergeVars, loopVars>>

NextRanking == NextGame \/ NewsletterLongestSessions

SpecRanking == InitRanking /\ [][NextRanking]_vars

\* ------------------------------------------------- no session loop running
\* the session loops and merges are not in use
EngineIdle ==
    /\ entry = "none"
    /\ pc = "idle"
    /\ df = <<>>
    /\ now_ts = 0
    /\ df_steam = <<>> /\ df_discord = <<>> /\ merged = <<>>
    /\ FreshLocals
    /\ FirstCall

\* ----------------------------------------------- collector: Steam presence
\* max_retries = 2
max_retries == 2

\* base_backoff = 1.5 seconds, in half seconds
base_backoff == 3

\* how one call of steam.users.get_user_details can end: details of a user
\* in a game, details without gameextrainfo, an empty result, one of the three
\* network errors, or another exception
FetchResults == {"game", "nogame", "empty", "SSLError", "ConnectionError",
                 "Timeout", "Exception"}

Retryable_Any(result) == result \notin {"game", "nogame", "empty"}

\* except (req_exc.SSLError, req_exc.ConnectionError, req_exc.Timeout)
Retryable(result) == result \in {"SSLError", "ConnectionError", "Timeout"}

\* 2 ** attempt
RECURSIVE Pow2(_)
Pow2(n) == IF n = 0 THEN 1 ELSE 2 * Pow2(n - 1)

\* backoff = base_backoff * (2 ** attempt)
Backoff(n) == base_backoff * Pow2(n)

\* if not user_details: None and the empty dict are falsy
Falsy(details) == details \in {"None", "empty"}

AfterInsertFailure_Raises == "raised"

\* except Exception as db_err: logging.error(...), and the for loop goes on
AfterInsertFailure == "next"

\* the configuration: Steam users 1..n in the order of the list
InitSteam ==
    /\ \E n \in 0..MaxSteamUsers : user_steam_ids = [k \in 1..n |-> k]
    /\ steam_pc = "idle"
    /\ user_idx = 1
    /\ attempt = 0
    /\ user_details = "None"
    /\ calls = [k \in 1..Len(user_steam_ids) |-> 0]
    /\ last_result = [k \in 1..Len(user_steam_ids) |-> "None"]
    /\ sleeps = [k \in 1..Len(user_steam_ids) |-> <<>>]
    /\ steam_rows = <<>>
    /\ EngineIdle
    /\ IdleExceptSteam

\* the position after the body of the for loop for the user at user_idx
NextUser(k) == IF k >= Len(user_steam_ids) THEN "returned" ELSE "fetch"

\* collect_steam_data is called: the for loop starts at the first user
SteamStart ==
    /\ steam_pc = "idle"
    /\ steam_pc' = IF user_steam_ids = <<>> THEN "returned" ELSE "fetch"
    /\ user_idx' = 1
    /\ attempt' = 0
    /\ user_details' = "None"
    /\ UNCHANGED <<user_steam_ids, calls, last_result, sleeps, steam_rows>>
    /\ UNCHANGED <<exceptSteam, engineVars>>

\* one pass of "while attempt <= max_retries": the call of get_user_details
\* and the branch its result takes
SteamFetch ==
    /\ steam_pc = "fetch"
    /\ attempt <= max_retries
    /\ \E result \in FetchResults :
         /\ calls' = [calls EXCEPT ![user_idx] = @ + 1]
         /\ last_result' = [last_result EXCEPT ![user_idx] = result]
         /\ IF Retryable(result)
            THEN /\ user_details' = user_details
                 /\ steam_pc' = IF attempt < max_retries THEN "backoff"
                                ELSE "fetched"
            ELSE /\ user_details' = IF result = "Exception" THEN user_details
                                    ELSE result
                 /\ steam_pc' = "fetched"
    /\ UNCHANGED <<user_steam_ids, user_idx, attempt, sleeps, steam_rows>>
    /\ UNCHANGED <<exceptSteam, engineVars>>

\* await self._async_sleep(backoff); attempt += 1; continue
SteamBackoff ==
    /\ steam_pc = "backoff"
    /\ sleeps' = [sleeps EXCEPT ![user_idx] = Append(@, Backoff(attempt))]
    /\ attempt' = attempt + 1
    /\ steam_pc' = "fetch"
    /\ UNCHANGED <<user_steam_ids, user_idx, user_details, calls, last_result,
                   steam_rows>>
    /\ UNCHANGED <<exceptSteam, engineVars>>

\* if not user_details: continue; and a user whose details name no game
SteamSkip ==
    /\ steam_pc = "fetched"
    /\ Falsy(user_details) \/ user_details = "nogame"
    /\ steam_pc' = NextUser(user_idx)
    /\ user_idx' = user_idx + 1
    /\ attempt' = 0
    /\ user_details' = "None"
    /\ UNCHANGED <<user_steam_ids, calls, last_result, sleeps, steam_rows>>
    /\ UNCHANGED <<exceptSteam, engineVars>>

\* if game_name: try: self.db.insert_steam_game_activity(...) except Exception
SteamInsert ==
    /\ steam_pc = "fetched"
    /\ user_details = "game"
    /\ \E inserted \in BOOLEAN :
         IF inserted
         THEN /\ steam_rows' = Append(steam_rows, user_steam_ids[user_idx])
              /\ steam_pc' = NextUser(user_idx)
         ELSE /\ steam_rows' = steam_rows
              /\ steam_pc' = IF AfterInsertFailure = "next"
                             THEN NextUser(user_idx) ELSE "raised"
    /\ user_idx' = user_idx + 1
    /\ attempt' = 0
    /\ user_details' = "None"
    /\ UNCHANGED <<user_steam_ids, calls, last_result, sleeps>>
    /\ UNCHANGED <<exceptSteam, engineVars>>

NextSteam == SteamStart \/ SteamFetch \/ SteamBackoff \/ SteamSkip \/ SteamInsert

SpecSteam == InitSteam /\ [][NextSteam]_vars

\* asyncio resumes the coroutine after every await: a step that is possible
\* is taken
SpecSteamLive == SpecSteam /\ WF_vars(NextSteam)

\* ------------------------------------------------ web server: FigureCache
\* the keys of a figure mapping, in insertion order
FigureKeys == <<"voice", "game">>

\* the request threads; the background refresh thread is thread 0
Requests == 1..MaxRequests

\* the mapping a build returns: a new dict with one figure per key; the figures
\* of build number b are numbered b
BuiltFigures(b) == {<<FigureKeys[k], b>> : k \in 1..Len(FigureKeys)}

\* the keys of a dict object, in insertion order
RECURSIVE KeysIn(_, _)
KeysIn(items, keys) ==
    IF keys = <<>> THEN <<>>
    ELSE IF \E it \in items : it[1] = Head(keys)
         THEN <<Head(keys)>> \o KeysIn(items, Tail(keys))
    ELSE KeysIn(items, Tail(keys))

\* d[key]
ItemOf(items, key) == CHOOSE it \in items : it[1] = key

Returned_Alias(src, copy) == src

\* return dict(self._figures): the new dict, not the cached one
Returned(src, copy) == copy

\* the cache after FigureCache(), with the refresh thread about to run and the
\* request threads idle
InitCache ==
    /\ lock = {}
    /\ figures_ref = 1
    /\ heap = <<{}>>
    /\ bg_pc = "build"
    /\ bg_figures = 0
    /\ builds = 0
    /\ req_pc = [t \in Requests |-> "idle"]
    /\ req_src = [t \in Requests |-> 0]
    /\ req_out = [t \in Requests |-> 0]
    /\ req_todo = [t \in Requests |-> <<>>]
    /\ req_result = [t \in Requests |-> 0]
    /\ gets = 0
    /\ published = {}
    /\ EngineIdle
    /\ IdleExceptCache

\* figures = build_initial_figures(data_provider): a new dict, or an exception
\* that the except branch logs
BgBuild ==
    /\ bg_pc = "build"
    /\ builds < MaxBuilds
    /\ builds' = builds + 1
    /\ \/ /\ heap' = Append(heap, BuiltFigures(builds + 1))
          /\ bg_figures' = Len(heap) + 1
          /\ bg_pc' = "set"
       \/ /\ bg_pc' = "sleep"
          /\ UNCHANGED <<heap, bg_figures>>
    /\ UNCHANGED <<lock, figures_ref, req_pc, req_src, req_out, req_todo,
                   req_result, gets, published>>
    /\ UNCHANGED <<exceptCache, engineVars>>

\* cache.set(figures): with self._lock
BgSetAcquire ==
    /\ bg_pc = "set"
    /\ lock = {}
    /\ lock' = {0}
    /\ bg_pc' = "assign"
    /\ UNCHANGED <<figures_ref, heap, bg_figures, builds, req_pc, req_src,
                   req_out, req_todo, req_result, gets, published>>
    /\ UNCHANGED <<exceptCache, engineVars>>

\* self._figures = figures, and the with block releases the lock
BgSetAssign ==
    /\ bg_pc = "assign"
    /\ figures_ref' = bg_figures
    /\ published' = published \cup {heap[bg_figures]}
    /\ lock' = {}
    /\ bg_pc' = "sleep"
    /\ UNCHANGED <<heap, bg_figures, builds, req_pc, req_src, req_out,
                   req_todo, req_result, gets>>
    /\ UNCHANGED <<exceptCache, engineVars>>

\* time.sleep(interval_seconds), then the next pass of "while True"
BgSleep ==
    /\ bg_pc = "sleep"
    /\ bg_pc' = "build"
    /\ UNCHANGED <<lock, figures_ref, heap, bg_figures, builds, req_pc,
                   req_src, req_out, req_todo, req_result, gets, published>>
    /\ UNCHANGED <<exceptCache, engineVars>>

\* get(): with self._lock, and dict(self._figures) reads the reference and
\* creates the new dict
GetEnter(t) ==
    /\ req_pc[t] = "idle"
    /\ gets < MaxGets
    /\ lock = {}
    /\ lock' = {t}
    /\ gets' = gets + 1
    /\ req_src' = [req_src EXCEPT ![t] = figures_ref]
    /\ heap' = Append(heap, {})
    /\ req_out' = [req_out EXCEPT ![t] = Len(heap) + 1]
    /\ req_todo' = [req_todo EXCEPT ![t] = KeysIn(heap[figures_ref], FigureKeys)]
    /\ req_pc' = [req_pc EXCEPT ![t] = "copying"]
    /\ UNCHANGED <<figures_ref, bg_pc, bg_figures, builds, req_result, published>>
    /\ UNCHANGED <<exceptCache, engineVars>>

\* dict(self._figures) copies one item
GetCopyKey(t) ==
    /\ req_pc[t] = "copying"
    /\ req_todo[t] # <<>>
    /\ heap' = [heap EXCEPT ![req_out[t]] =
                   @ \cup {ItemOf(heap[req_src[t]], Head(req_todo[t]))}]
    /\ req_todo' = [req_todo EXCEPT ![t] = Tail(@)]
    /\ UNCHANGED <<lock, figures_ref, bg_pc, bg_figures, builds, req_pc,
                   req_src, req_out, req_result, gets, published>>
    /\ UNCHANGED <<exceptCache, engineVars>>

\* the copy is complete: the with block releases the lock and get() returns
GetReturn(t) ==
    /\ req_pc[t] = "copying"
    /\ req_todo[t] = <<>>
    /\ lock' = {}
    /\ req_result' = [req_result EXCEPT ![t] = Returned(req_src[t], req_out[t])]
    /\ req_pc' = [req_pc EXCEPT ![t] = "returned"]
    /\ UNCHANGED <<figures_ref, heap, bg_pc, bg_figures, builds, req_src,
                   req_out, req_todo, gets, published>>
    /\ UNCHANGED <<exceptCache, engineVars>>

\* the caller is done with the mapping it got; it may have changed it first
\* (here: figs["voice"] = a figure that no build made, numbered 0)
RequestDone(t) ==
    /\ req_pc[t] = "returned"
    /\ \/ heap' = heap
       \/ heap' = [heap EXCEPT ![req_result[t]] =
                      {it \in @ : it[1] # "voice"} \cup {<<"voice", 0>>}]
    /\ req_pc' = [req_pc EXCEPT ![t] = "idle"]
    /\ UNCHANGED <<lock, figures_ref, bg_pc, bg_figures, builds, req_src,
                   req_out, req_todo, req_result, gets, published>>
    /\ UNCHANGED <<exceptCache, engineVars>>

NextCache ==
    \/ BgBuild \/ BgSetAcquire \/ BgSetAssign \/ BgSleep
    \/ \E t \in Requests :
         GetEnter(t) \/ GetCopyKey(t) \/ GetReturn(t) \/ RequestDone(t)

SpecCache == InitCache /\ [][NextCache]_vars

\* ---------------------------------------------- web frontend: WebDataLoader
\* the four caches: _steam, _discord_voice_activity, _discord_voice_channels,
\* _discord_game_activity
CacheNames == {"steam", "discord_voice_activity", "discord_voice_channels",
               "discord_game_activity"}

\* ttl_minutes handed to the constructor (None and 0 select the configured
\* WEB_CACHE_TTL_MINUTES, which is one of these too)
TtlMinutes == {-1, 1, 2}

\* self.ttl_seconds = max(1, ttl_minutes) * 60
TtlSeconds(ttl_minutes) == (IF ttl_minutes > 1 THEN ttl_minutes ELSE 1) * 60

\* how far the clock moves between two calls, in half seconds: half a second,
\* or half a second less than a minute, or a minute
ClockSteps == {1, 119, 120}

\* how long a database query takes, in half seconds
QueryTimes == {0, 1}

\* int(time.time())
IntTime(halves) == halves \div 2

is_valid_Inclusive(e, now) ==
    IF e = <<>> THEN FALSE
    ELSE now - 2 * e[1].loaded_ts <= 2 * ttl_seconds

\* _is_valid: entry is not None and (time.time() - entry.loaded_ts) <
\* self.ttl_seconds, both sides in half seconds
is_valid(e, now) ==
    IF e = <<>> THEN FALSE
    ELSE now - 2 * e[1].loaded_ts < 2 * ttl_seconds

\* WebDataLoader.__init__ at some time of day
InitLoader ==
    /\ clock \in {0, 1}
    /\ \E m \in TtlMinutes : ttl_seconds = TtlSeconds(m)
    /\ entries = [c \in CacheNames |-> <<>>]
    /\ queries = 0
    /\ load_call = <<>>
    /\ load_result = 0
    /\ loads = 0
    /\ ticks = 0
    /\ EngineIdle
    /\ IdleExceptLoader

\* time passes between two calls
ClockTick ==
    /\ ticks < MaxTicks
    /\ ticks' = ticks + 1
    /\ \E d \in ClockSteps : clock' = clock + d
    /\ UNCHANGED <<ttl_seconds, entries, queries, load_call, load_result, loads>>
    /\ UNCHANGED <<exceptLoader, engineVars>>

\* load_steam_game_activity, load_discord_voice_activity,
\* load_discord_voice_channels, load_discord_game_activity: return the cached
\* frame, or query the database and store the frame with int(time.time())
Load(cache, force) ==
    /\ loads < MaxLoads
    /\ loads' = loads + 1
    /\ load_call' = <<cache, force>>
    /\ IF ~force /\ is_valid(entries[cache], clock)
       THEN /\ load_result' = entries[cache][1].df
            /\ UNCHANGED <<clock, entries, queries>>
       ELSE /\ queries' = queries + 1
            /\ load_result' = queries + 1
            /\ \E took \in QueryTimes : clock' = clock + took
            /\ entries' = [entries EXCEPT ![cache] =
                              <<[df |-> queries + 1,
                                 loaded_ts |-> IntTime(clock')]>>]
    /\ UNCHANGED <<ttl_seconds, ticks>>
    /\ UNCHANGED <<exceptLoader, engineVars>>

NextLoader ==
    \/ ClockTick
    \/ \E cache \in CacheNames, force \in BOOLEAN : Load(cache, force)

SpecLoader == InitLoader /\ [][NextLoader]_vars

\* ------------------------------------------- session loops, rows reordered
\* the voice frames of at most rows rows with timestamps up to last
VoiceFrameTo(frame, rows, last, cells) ==
    \E n \in 0..rows : \E stamps \in StampListsTo(n, last) :
        \E c \in [1..n -> cells] :
            frame = [k \in 1..n |->
                       [timestamp |-> stamps[k], user_name |-> c[k][1],
                        channel_name |-> c[k][2],
                        collection_interval |-> c[k][3]]]

\* the frame of the first call, in timestamp order: one group with two
\* intervals, or two groups (game) or two channels (voice) with one interval
PermFrame(frame, which) ==
    IF which = "game"
    THEN \/ GameFrameOf(frame, MaxRows, MaxPermTs,
                        Users \X Games \X {"steam"} \X {2, 6})
         \/ GameFrameOf(frame, MaxRows, MaxPermTs,
                        Users \X Games \X Sources \X {2})
    ELSE \/ VoiceFrameTo(frame, MaxRows, MaxPermTs, Users \X {"A"} \X {2, 6})
         \/ VoiceFrameTo(frame, MaxRows, MaxPermTs, Users \X Channels \X {2})

\* the orders in which n rows can be handed over
RowOrders(n) == {p \in [1..n -> 1..n] : \A i, j \in 1..n : p[i] = p[j] => i = j}

InitPermute ==
    /\ entry \in {"game", "voice"}
    /\ PermFrame(df, entry)
    /\ pc = "groups"
    /\ now_ts = 0
    /\ df_steam = <<>> /\ df_discord = <<>> /\ merged = <<>>
    /\ FreshLocals
    /\ FirstCall
    /\ ServicesIdle

\* the first call has returned; the same rows are handed to the same loop
\* again, in any order
PermutedCall ==
    /\ pc \in {"done", "raised"}
    /\ call_no = 1
    /\ call_no' = 2
    /\ first_df' = df
    /\ first_out' = <<pc, sess_df>>
    /\ \E p \in RowOrders(Len(df)) : df' = [k \in 1..Len(df) |-> df[p[k]]]
    /\ pc' = "groups"
    /\ done_keys' = {}
    /\ g' = <<>>
    /\ idx' = 1
    /\ current' = <<>>
    /\ prev_row' = <<>>
    /\ default_interval' = SystemDefaultInterval
    /\ loc' = NoLocals
    /\ sessions' = FreshSessions
    /\ sess_df' = <<>>
    /\ UNCHANGED <<serviceVars, mergeVars, entry, now_ts>>

NextPermute == NextGame \/ NextVoice \/ PermutedCall

SpecPermute == InitPermute /\ [][NextPermute]_vars

\* ------------------------------------------- the two game pipelines, whole
\* timestamp = (datetime.now().timestamp() // 300) * 300: the collector stamps
\* its rows on a grid of 300 seconds
PollGrid == 300

\* the collection_interval values of stored rows: NULL (rows older than the
\* column) or the configured DATA_COLLECTION_INTERVAL, here 600
StoredIntervals == {None, 600}

\* the rows of one table in the loaded range: ORDER BY timestamp ASC, one user
IsPipeInput(frame, n) ==
    \E stamps \in StampListsTo(n, MaxPipePolls) :
        \E cells \in [1..n -> MergeGames \X StoredIntervals] :
            frame = [k \in 1..n |->
                       [timestamp |-> PollGrid * stamps[k], user_name |-> "u1",
                        game_name |-> cells[k][1],
                        collection_interval |-> cells[k][2]]]

\* if "collection_interval" not in df.columns: df["collection_interval"] = 300.0
WithSystemDefault(frame) ==
    [k \in 1..Len(frame) |->
        [timestamp |-> frame[k].timestamp, user_name |-> frame[k].user_name,
         game_name |-> frame[k].game_name,
         minutes_per_snapshot |-> frame[k].minutes_per_snapshot,
         source |-> frame[k].source,
         collection_interval |-> SystemDefaultInterval]]

\* load_all is called on the stored rows
InitPipeline ==
    /\ \E n \in 0..MaxPipeRows : \E m \in 0..(MaxPipeRows - n) :
         IsPipeInput(df_steam, n) /\ IsPipeInput(df_discord, m)
    /\ pipeline = "provider"
    /\ provider_out = <<>>
    /\ entry = "provider"
    /\ pc = "provider"
    /\ now_ts = 0
    /\ merged = <<>>
    /\ df = <<>>
    /\ FreshLocals
    /\ FirstCall
    /\ IdleExceptPipe

\* load_all: df_game_intervals = self._compute_game_activity_intervals(
\* df_game_merged); the merged frame has no collection_interval column
ProviderIntervals ==
    /\ pipeline = "provider"
    /\ pc = "provider_merged"
    /\ df' = WithSystemDefault(merged)
    /\ entry' = "game"
    /\ pc' = "groups"
    /\ UNCHANGED <<serviceVars, mergeVars, done_keys, g, idx, current, prev_row,
                   default_interval, loc, sessions, sess_df, now_ts, call_no,
                   first_df, first_out>>

\* load_all has returned (or raised); Database.query_get_game_activity_sessions
\* is called on the same stored rows
DatabaseCall ==
    /\ pipeline = "provider"
    /\ entry = "game"
    /\ pc \in {"done", "raised"}
    /\ provider_out' = <<pc, sess_df>>
    /\ pipeline' = "database"
    /\ entry' = "database"
    /\ pc' = "database"
    /\ merged' = <<>>
    /\ df' = <<>>
    /\ done_keys' = {}
    /\ g' = <<>>
    /\ idx' = 1
    /\ current' = <<>>
    /\ prev_row' = <<>>
    /\ default_interval' = SystemDefaultInterval
    /\ loc' = NoLocals
    /\ sessions' = <<>>
    /\ sess_df' = <<>>
    /\ UNCHANGED <<exceptPipe, df_steam, df_discord, now_ts, call_no, first_df,
                   first_out>>

\* query_get_game_activity_sessions: df = game_activity.copy(), with the
\* collection_interval column of the stored rows
DatabaseSessions ==
    /\ pipeline = "database"
    /\ pc = "database_merged"
    /\ df' = merged
    /\ entry' = "game"
    /\ pc' = "groups"
    /\ UNCHANGED <<serviceVars, mergeVars, done_keys, g, idx, current, prev_row,
                   default_interval, loc, sessions, sess_df, now_ts, call_no,
                   first_df, first_out>>

NextPipeline ==
    NextMerge \/ ProviderIntervals \/ NextGame \/ DatabaseCall \/ DatabaseSessions

SpecPipeline == InitPipeline /\ [][NextPipeline]_vars

\* ------------------------------------------------------ core_loop, main.py
\* the configured DATA_COLLECTION_INTERVAL: the default of config.py, and 300
ConfiguredIntervals == {5, 300}

\* the calendar of time.localtime(): the months of a year of 365 days
MonthLengths == <<31, 28, 31, 30, 31, 30, 31, 31, 30, 31, 30, 31>>

YearLength == 365

\* the tm_yday of the day core_loop is started on: 1 January, 31 January,
\* 31 December
FirstDays == {1, 31, 365}

\* the hours and minutes the wall clock shows when it is read
Hours == {9, 12}

Minutes == {0, 10, 11}

\* tm_mday of the day tm_yday, counted from the month "month" on
RECURSIVE MonthDayFrom(_, _)
MonthDayFrom(yday, month) ==
    IF yday <= MonthLengths[month] THEN yday
    ELSE MonthDayFrom(yday - MonthLengths[month], month + 1)

\* now = time.localtime()
localtime(w, e) ==
    LET yday == ((e.tm_yday - 1 + w.day) % YearLength) + 1 IN
    [tm_yday |-> yday,
     tm_wday |-> (e.tm_wday + w.day) % 7,
     tm_mday |-> MonthDayFrom(yday, 1),
     tm_hour |-> w.hour,
     tm_min |-> w.min]

should_publish_newsletter(newsletter_type, t, interval, last_newsletter_day) ==
    LET day_of_year == t.tm_yday IN
    IF newsletter_type = "weekly" THEN
        /\ t.tm_wday = 0
        /\ t.tm_hour = 9
        /\ 0 <= t.tm_min /\ t.tm_min <= interval * 2
        /\ last_newsletter_day # day_of_year
    ELSE IF newsletter_type = "monthly" THEN
        /\ t.tm_mday = 1
        /\ t.tm_hour = 12
        /\ 0 <= t.tm_min /\ t.tm_min <= interval * 2
        /\ last_newsletter_day # day_of_year
    ELSE FALSE

\* how a newsletter creation ends: it returns, or it raises an Exception
CreateResults == {"ok", "raised"}

AfterCreate_OnSuccess(result, day_of_year, last) ==
    IF result = "ok" THEN day_of_year ELSE last

\* try: create_..._newsletter(...) except Exception: logging.error(...)
\* last_..._newsletter_day = day_of_year
AfterCreate(result, day_of_year, last) == day_of_year

\* how collect_discord_data ends: it returns (after its inserts, or at once
\* when the client is not ready), or it raises; sqlite3.OperationalError from
\* an insert_discord_... call is the exception that is no discord exception
DiscordResults ==
    {"ok", "not_ready", "Forbidden", "HTTPException", "ClientException",
     "OperationalError"}

DiscordReturns == {"ok", "not_ready"}

\* except discord.Forbidden / discord.HTTPException / discord.ClientException
DiscordCaught == {"Forbidden", "HTTPException", "ClientException"}

\* how collect_steam_data ends; core_loop catches Exception
SteamResults == {"ok", "Exception"}

\* the wall clock does not run backwards within a day
TimeLeq(a, b) == a.hour < b.hour \/ (a.hour = b.hour /\ a.min <= b.min)

\* main() has created the core_loop task
InitCore ==
    /\ DATA_COLLECTION_INTERVAL \in ConfiguredIntervals
    /\ core_pc = "start"
    /\ wall \in [day : {0}, hour : Hours, min : Minutes]
    /\ epoch \in [tm_yday : FirstDays, tm_wday : 0..6]
    /\ now_tm = <<>>
    /\ interval_minutes = 0
    /\ last_weekly_newsletter_day = None
    /\ last_monthly_newsletter_day = None
    /\ weekly_log = <<>>
    /\ monthly_log = <<>>
    /\ discord_result = "none"
    /\ steam_result = "none"
    /\ iterations = 0
    /\ EngineIdle
    /\ IdleExceptCore

\* core_loop up to "while True"
CoreLoopStart ==
    /\ core_pc = "start"
    /\ last_weekly_newsletter_day' = None
    /\ last_monthly_newsletter_day' = None
    /\ interval_minutes' = DATA_COLLECTION_INTERVAL \div 60
    /\ core_pc' = "top"
    /\ UNCHANGED <<exceptCore, engineVars, DATA_COLLECTION_INTERVAL, wall, epoch,
                   now_tm, weekly_log, monthly_log, discord_result,
                   steam_result, iterations>>

\* now = time.localtime(); check_and_publish_newsletter(...)
CheckAndPublish ==
    /\ core_pc = "top"
    /\ LET t == localtime(wall, epoch) IN
       /\ now_tm' = t
       /\ \/ /\ should_publish_newsletter("weekly", t, interval_minutes,
                                          last_weekly_newsletter_day)
             /\ \E result \in CreateResults :
                  /\ weekly_log' = Append(weekly_log,
                         [day |-> wall.day, iteration |-> iterations,
                          result |-> result])
                  /\ last_weekly_newsletter_day' =
                         AfterCreate(result, t.tm_yday,
                                     last_weekly_newsletter_day)
          \/ /\ ~should_publish_newsletter("weekly", t, interval_minutes,
                                           last_weekly_newsletter_day)
             /\ UNCHANGED <<weekly_log, last_weekly_newsletter_day>>
       /\ \/ /\ should_publish_newsletter("monthly", t, interval_minutes,
                                          last_monthly_newsletter_day)
             /\ \E result \in CreateResults :
                  /\ monthly_log' = Append(monthly_log,
                         [day |-> wall.day, iteration |-> iterations,
                          result |-> result])
                  /\ last_monthly_newsletter_day' =
                         AfterCreate(result, t.tm_yday,
                                     last_monthly_newsletter_day)
          \/ /\ ~should_publish_newsletter("monthly", t, interval_minutes,
                                           last_monthly_newsletter_day)
             /\ UNCHANGED <<monthly_log, last_monthly_newsletter_day>>
    /\ discord_result' = "none"
    /\ steam_result' = "none"
    /\ core_pc' = "discord"
    /\ UNCHANGED <<exceptCore, engineVars, DATA_COLLECTION_INTERVAL, wall, epoch,
                   interval_minutes, iterations>>

\* try: await collector.collect_discord_data() except discord.Forbidden ...
CollectDiscord ==
    /\ core_pc = "discord"
    /\ \E result \in DiscordResults :
         /\ discord_result' = result
         /\ core_pc' = IF result \in DiscordReturns \cup DiscordCaught
                       THEN "steam" ELSE "raised"
    /\ UNCHANGED <<exceptCore, engineVars, DATA_COLLECTION_INTERVAL, wall, epoch,
                   now_tm, interval_minutes, last_weekly_newsletter_day,
                   last_monthly_newsletter_day, weekly_log, monthly_log,
                   steam_result, iterations>>

\* try: await collector.collect_steam_data() except Exception ...
CollectSteam ==
    /\ core_pc = "steam"
    /\ \E result \in SteamResults : steam_result' = result
    /\ core_pc' = "sleep"
    /\ UNCHANGED <<exceptCore, engineVars, DATA_COLLECTION_INTERVAL, wall, epoch,
                   now_tm, interval_minutes, last_weekly_newsletter_day,
                   last_monthly_newsletter_day, weekly_log, monthly_log,
                   discord_result, iterations>>

\* the rest of the iteration: asyncio.sleep(sleep_time) if sleep_time > 0;
\* the wall clock goes on, within the day or past midnight
CoreSleep ==
    /\ core_pc = "sleep"
    /\ iterations < MaxIterations
    /\ \E hour \in Hours : \E min \in Minutes :
         \/ /\ TimeLeq(wall, [hour |-> hour, min |-> min])
            /\ wall' = [day |-> wall.day, hour |-> hour, min |-> min]
         \/ /\ wall.day < MaxDays
            /\ wall' = [day |-> wall.day + 1, hour |-> hour, min |-> min]
    /\ iterations' = iterations + 1
    /\ core_pc' = "top"
    /\ UNCHANGED <<exceptCore, engineVars, DATA_COLLECTION_INTERVAL, epoch,
                   now_tm, interval_minutes, last_weekly_newsletter_day,
                   last_monthly_newsletter_day, weekly_log, monthly_log,
                   discord_result, steam_result>>

NextCore ==
    CoreLoopStart \/ CheckAndPublish \/ CollectDiscord \/ CollectSteam \/ CoreSleep

SpecCore == InitCore /\ [][NextCore]_vars

\* ================================================================== claims
\* a collection_interval is valid iff it is finite and strictly positive
IsValidInterval(v) == v \notin {None, NaN, Inf} /\ v > 0

\* the effective interval of a snapshot, given the default of its group
EffectiveInterval(raw, default) == IF IsValidInterval(raw) THEN raw ELSE default

Max2(a, b) == IF a >= b THEN a ELSE b

\* the gap tolerance of two consecutive rows of the walked group
Tolerance(prev, row, default) ==
    2 * Max2(EffectiveInterval(prev.collection_interval, default),
             EffectiveInterval(row.collection_interval, default))

Overlap(s, t) == s.start_ts < t.end_ts /\ t.start_ts < s.end_ts

SameGameGroup(a, b) ==
    a.user_name = b.user_name /\ a.game_name = b.game_name /\ a.source = b.source

Spans(table) == {<<table[k].start_ts, table[k].end_ts>> : k \in 1..Len(table)}

\* C1 (non-overlap): in the returned game session table no two sessions of the
\* same (user_name, game_name, source) group overlap as half-open intervals
\* [start_ts, end_ts); stated here for the input frames whose
\* collection_interval values are all valid, where every effective interval is
\* the snapshot's own.
C1_NonOverlap ==
    (/\ pc = "done"
     /\ \A k \in 1..Len(df) : IsValidInterval(df[k].collection_interval))
    => \A i, j \in 1..Len(sess_df) :
           (i # j /\ SameGameGroup(sess_df[i], sess_df[j]))
               => ~Overlap(sess_df[i], sess_df[j])

\* C2 (coverage): when the game loop has returned, every input snapshot with
\* timestamp t and effective interval e lies in a returned session of its
\* group: start_ts <= t and t + e <= end_ts.
C2_Coverage ==
    pc = "done" =>
        \A k \in 1..Len(df) :
            LET row == df[k]
                e == EffectiveInterval(row.collection_interval,
                         DefaultInterval(GameGroup(df, GameKey(row))))
            IN \E j \in 1..Len(sess_df) :
                   /\ SameGameGroup(sess_df[j], row)
                   /\ sess_df[j].start_ts <= row.timestamp
                   /\ row.timestamp + e <= sess_df[j].end_ts

\* C3 (gap-splitting): a game loop step whose row lies more than
\* 2 * max(effective interval of the previous row, effective interval of the
\* row) after the previous row closes the open session (appended iff its
\* end_ts > start_ts) and opens a new one with start_ts = the row's timestamp;
\* two snapshots of one group with valid intervals and such a gap give exactly
\* the sessions [t1, t1 + e1) and [t2, t2 + e2).
C3_StepSplits ==
    (/\ pc = "walk" /\ idx <= Len(g) /\ idx > 1 /\ current # <<>>
     /\ g[idx].timestamp - g[idx - 1].timestamp
          > Tolerance(g[idx - 1], g[idx], default_interval))
    => /\ sessions' = IF current[1].end_ts > current[1].start_ts
                      THEN Append(sessions, current[1]) ELSE sessions
       /\ current' # <<>>
       /\ current'[1].start_ts = g[idx].timestamp
       /\ current'[1].end_ts = g[idx].timestamp
            + EffectiveInterval(g[idx].collection_interval, default_interval)
       /\ SameGameGroup(current'[1], g[idx])

C3_TwoSnapshots ==
    (/\ pc = "done" /\ Len(df) = 2 /\ SameGameGroup(df[1], df[2])
     /\ IsValidInterval(df[1].collection_interval)
     /\ IsValidInterval(df[2].collection_interval)
     /\ df[2].timestamp - df[1].timestamp > Tolerance(df[1], df[2], 0))
    => /\ Len(sess_df) = 2
       /\ Spans(sess_df) =
            {<<df[1].timestamp, df[1].timestamp + df[1].collection_interval>>,
             <<df[2].timestamp, df[2].timestamp + df[2].collection_interval>>}

C3_GapSplitting == [][C3_StepSplits]_vars /\ [](C3_TwoSnapshots)

C3_Witness ==
    /\ pc = "done" /\ Len(df) = 2 /\ SameGameGroup(df[1], df[2])
    /\ IsValidInterval(df[1].collection_interval)
    /\ IsValidInterval(df[2].collection_interval)
    /\ df[2].timestamp - df[1].timestamp > Tolerance(df[1], df[2], 0)
    /\ Len(sess_df) = 2

\* the walked group is one chain: every pair of consecutive rows has
\* gap <= 2 * max of their two effective intervals
OneChain(rows, default) ==
    \A k \in 2..Len(rows) :
        rows[k].timestamp - rows[k - 1].timestamp
            <= Tolerance(rows[k - 1], rows[k], default)

RECURSIVE MaxEnd(_, _)
MaxEnd(rows, default) ==
    LET last == rows[Len(rows)]
        end == last.timestamp
                 + EffectiveInterval(last.collection_interval, default)
    IN IF Len(rows) = 1 THEN end
       ELSE Max2(end, MaxEnd(SubSeq(rows, 1, Len(rows) - 1), default))

\* C4 (gap-tolerant merge): an input of one game group in which every pair of
\* consecutive snapshots has gap <= 2 * max of their effective intervals gives
\* exactly one session, [first timestamp, max of timestamp + effective
\* interval); a single snapshot at t with interval e gives exactly [t, t + e).
C4_MergeToOne ==
    (/\ pc \in {"done", "raised"} /\ df # <<>>
     /\ \A k \in 1..Len(df) : SameGameGroup(df[k], df[1])
     /\ OneChain(df, DefaultInterval(df)))
    => /\ pc = "done"
       /\ Len(sess_df) = 1
       /\ sess_df[1].start_ts = df[1].timestamp
       /\ sess_df[1].end_ts = MaxEnd(df, DefaultInterval(df))

\* C5 (channel switch): a voice loop step whose row's channel differs from
\* the channel of the open session closes that session (appended iff its
\* end_ts > start_ts) and opens a new one at the row, whatever the gap; two
\* snapshots of one user in different channels with valid intervals give two
\* sessions, [t1, t1 + e1) and [t2, t2 + e2).
C5_StepSplits ==
    (/\ pc = "walk" /\ idx <= Len(g) /\ current # <<>>
     /\ g[idx].channel_name # current[1].channel_name)
    => /\ sessions' = IF current[1].end_ts > current[1].start_ts
                      THEN Append(sessions, current[1]) ELSE sessions
       /\ current' # <<>>
       /\ current'[1].start_ts = g[idx].timestamp
       /\ current'[1].channel_name = g[idx].channel_name
       /\ current'[1].end_ts = g[idx].timestamp
            + EffectiveInterval(g[idx].collection_interval, default_interval)

C5_TwoChannels ==
    (/\ pc = "done" /\ Len(df) = 2
     /\ df[1].channel_name # df[2].channel_name
     /\ IsValidInterval(df[1].collection_interval)
     /\ IsValidInterval(df[2].collection_interval))
    => /\ Len(sess_df) = 2
       /\ \E i, j \in 1..2 :
            /\ sess_df[i].channel_name = df[1].channel_name
            /\ sess_df[i].start_ts = df[1].timestamp
            /\ sess_df[i].end_ts = df[1].timestamp + df[1].collection_interval
            /\ sess_df[j].channel_name = df[2].channel_name
            /\ sess_df[j].start_ts = df[2].timestamp
            /\ sess_df[j].end_ts = df[2].timestamp + df[2].collection_interval

C5_ChannelSwitch == [][C5_StepSplits]_vars /\ [](C5_TwoChannels)

C5_Witness ==
    /\ pc = "done" /\ Len(df) = 2
    /\ df[1].channel_name # df[2].channel_name
    /\ IsValidInterval(df[1].collection_interval)
    /\ IsValidInterval(df[2].collection_interval)
    /\ df[2].timestamp - df[1].timestamp <= Tolerance(df[1], df[2], 0)
    /\ df[2].timestamp > df[1].timestamp
    /\ Len(sess_df) = 2

Merged == pc \in {"provider_merged", "database_merged"}

SameSubjectInstant(a, b) ==
    a.user_name = b.user_name /\ a.timestamp = b.timestamp

\* C6 (precedence merge, discard rule): the merged frame holds no discord row
\* whose (user_name, timestamp) occurs in a steam input row, whatever game the
\* two rows report; no (user_name, timestamp) of the merged frame has rows of
\* both sources.
C6_DiscardRule ==
    Merged =>
        /\ \A k \in 1..Len(merged) : \A j \in 1..Len(df_steam) :
              merged[k].source = "discord"
                  => ~SameSubjectInstant(merged[k], df_steam[j])
        /\ \A k, j \in 1..Len(merged) :
              SameSubjectInstant(merged[k], merged[j])
                  => merged[k].source = merged[j].source

C6_Witness ==
    /\ Merged
    /\ \E i \in 1..Len(df_steam) : \E j \in 1..Len(df_discord) :
         /\ SameSubjectInstant(df_steam[i], df_discord[j])
         /\ df_steam[i].game_name # df_discord[j].game_name
    /\ Len(merged) < Len(df_steam) + Len(df_discord)

Count(frame, row) == Cardinality({k \in 1..Len(frame) : frame[k] = row})

RowsOf(frame) == {frame[k] : k \in 1..Len(frame)}

\* an input row as it appears in the merged frame of the call made
Stamped(row, source) ==
    IF pc = "provider_merged"
    THEN [timestamp |-> row.timestamp, user_name |-> row.user_name,
          game_name |-> row.game_name,
          minutes_per_snapshot |->
              IF row.collection_interval = 120 THEN 2 ELSE 5,
          source |-> source]
    ELSE [timestamp |-> row.timestamp, user_name |-> row.user_name,
          game_name |-> row.game_name,
          collection_interval |-> row.collection_interval, source |-> source]

HasSteamAt(row) ==
    \E j \in 1..Len(df_steam) : SameSubjectInstant(df_steam[j], row)

\* how often the merged frame must hold the row: once per equal steam input
\* row, once per equal discord input row that no steam row shadows
Expected(row) ==
    Cardinality({k \in 1..Len(df_steam) : Stamped(df_steam[k], "steam") = row})
      + Cardinality({k \in 1..Len(df_discord) :
                       /\ Stamped(df_discord[k], "discord") = row
                       /\ ~HasSteamAt(df_discord[k])})

\* C7 (precedence merge, keep rule): the merged frame holds every steam row
\* and every discord row whose (user_name, timestamp) is in no steam row, each
\* as often as in the input and with its own source, and holds no other row.
C7_KeepRule ==
    Merged =>
        \A row \in RowsOf(merged)
                     \cup {Stamped(df_steam[k], "steam") : k \in 1..Len(df_steam)}
                     \cup {Stamped(df_discord[k], "discord") :
                             k \in 1..Len(df_discord)} :
            Count(merged, row) = Expected(row)

C7_Witness ==
    /\ Merged
    /\ df_steam # <<>>
    /\ \E j \in 1..Len(df_discord) : HasSteamAt(df_discord[j])
    /\ \E j \in 1..Len(df_discord) :
         /\ ~HasSteamAt(df_discord[j])
         /\ Count(merged, Stamped(df_discord[j], "discord")) = 1

\* C8 (interval validation): the interval the game loop uses for the row it
\* has just read is the row's collection_interval when that is finite and
\* > 0 and the group default otherwise; the value it uses for the previous
\* row in the tolerance is the one it used when that row was the current row.
C8_IntervalValidation ==
    (pc = "walk" /\ idx > 1) =>
        /\ loc.interv = EffectiveInterval(g[idx - 1].collection_interval,
                                          default_interval)
        /\ loc.snapshot_end = FAdd(g[idx - 1].timestamp, loc.interv)
        /\ idx > 2 =>
             /\ loc.prev_interv =
                  EffectiveInterval(g[idx - 2].collection_interval,
                                    default_interval)
             /\ loc.max_gap = FTwice(Max2(loc.prev_interv, loc.interv))

C8_Witness ==
    /\ pc = "walk" /\ idx > 2
    /\ ~IsValidInterval(g[idx - 1].collection_interval)
    /\ IsValidInterval(g[idx - 2].collection_interval)
    /\ loc.interv = default_interval
    /\ loc.prev_interv = g[idx - 2].collection_interval
    /\ loc.prev_interv # loc.interv

RECURSIVE ValidOnly(_)
ValidOnly(vals) ==
    IF vals = <<>> THEN <<>>
    ELSE IF IsValidInterval(Head(vals))
         THEN <<Head(vals)>> \o ValidOnly(Tail(vals))
         ELSE ValidOnly(Tail(vals))

\* C9 (group default): the default interval the game loop computes for a group
\* is the median of the group's valid (finite, > 0) collection_interval
\* values, and 300 when the group has no valid value.
C9_GroupDefault ==
    pc = "walk" =>
        default_interval =
            IF ValidOnly(Intervals(g)) # <<>>
            THEN median(ValidOnly(Intervals(g)))
            ELSE SystemDefaultInterval

\* C10 (effective intervals positive): the group default and every interval
\* the game loop uses are finite and > 0.
C10_PositiveIntervals ==
    pc = "walk" =>
        /\ IsValidInterval(default_interval)
        /\ idx > 1 => IsValidInterval(loc.interv)
        /\ idx > 2 => IsValidInterval(loc.prev_interv)

\* every snapshot of the walked group has a null collection_interval
AllNull(rows) == \A k \in 1..Len(rows) : rows[k].collection_interval = None

\* C11: while the engine walks a group in which every collection_interval is
\* null, the effective interval of each snapshot it has read is the system
\* default of 300 seconds, whatever the other groups of the input carry
C11_DefaultFallback ==
    (pc = "walk" /\ idx > 1 /\ AllNull(g)) => loc.interv = SystemDefaultInterval

\* C12: every session of the list of closed sessions has end_ts > start_ts, and
\* every row of the returned session table has end_ts > start_ts and
\* duration_seconds = end_ts - start_ts > 0
C12_SessionRecords ==
    /\ \A k \in 1..Len(sessions) : sessions[k].end_ts > sessions[k].start_ts
    /\ \A k \in 1..Len(sess_df) :
         /\ sess_df[k].end_ts > sess_df[k].start_ts
         /\ sess_df[k].duration_seconds = sess_df[k].end_ts - sess_df[k].start_ts
         /\ sess_df[k].duration_seconds > 0

\* a call returned one session after it dropped the accumulator of the first
\* snapshot
C12_Witness ==
    /\ pc = "done" /\ Len(df) = 3 /\ Len(sess_df) = 1
    /\ sess_df[1].start_ts > df[1].timestamp

\* C13: a call of the game loop on the frame of the first call returns what the
\* first call returned (the same outcome and the same session table), also
\* after a call on another frame was made in between
C13_Determinism ==
    (pc \in {"done", "raised"} /\ call_no > 1 /\ df = first_df)
        => <<pc, sess_df>> = first_out

\* the third call, on the frame of the first, returned two sessions; the second
\* call was on another frame
C13_Witness ==
    /\ pc = "done" /\ call_no = 3 /\ df = first_df
    /\ Len(sess_df) = 2

\* the game loop is about to read row idx of the walked group after row idx - 1
AtStep == entry = "game" /\ pc = "walk" /\ idx <= Len(g) /\ idx > 1 /\ current # <<>>

\* the effective intervals of the earlier and of the later snapshot, their gap
EarlierInterval == EffectiveInterval(g[idx - 1].collection_interval, default_interval)

LaterInterval == EffectiveInterval(g[idx].collection_interval, default_interval)

StepGap == g[idx].timestamp - g[idx - 1].timestamp

\* timestamp + effective interval of a snapshot of the walked group
SnapshotEnd(row) ==
    FAdd(row.timestamp, EffectiveInterval(row.collection_interval, default_interval))

\* the step keeps the row in the open session
StepMerges ==
    /\ sessions' = sessions
    /\ current' # <<>>
    /\ current'[1].start_ts = current[1].start_ts
    /\ current'[1].end_ts >= SnapshotEnd(g[idx])

\* the step closes the open session and opens one at the row
StepSplits ==
    /\ sessions' = IF current[1].end_ts > current[1].start_ts
                   THEN Append(sessions, current[1]) ELSE sessions
    /\ current' # <<>>
    /\ current'[1].start_ts = g[idx].timestamp
    /\ current'[1].end_ts = SnapshotEnd(g[idx])

\* C14 as stated: for two consecutive snapshots of a group that both carry a
\* valid interval, the earlier P, a gap of 2 * P never splits them and a gap of
\* at least 3 * P always splits them, whatever the later snapshot's interval is
C14_MissedPoll ==
    [][(/\ AtStep
        /\ IsValidInterval(g[idx - 1].collection_interval)
        /\ IsValidInterval(g[idx].collection_interval))
          => /\ StepGap = 2 * EarlierInterval => StepMerges
             /\ StepGap >= 3 * EarlierInterval => StepSplits]_vars

\* C14 amended: for two consecutive snapshots of a group, the earlier with
\* effective interval P > 0, a gap of 2 * P never splits them; a gap of at least 3 * P splits
\* them exactly when it also exceeds twice the later snapshot's effective
\* interval Q, and merges them when the interval grew so that gap <= 2 * Q
C14_MissedPollAmended ==
    [][(AtStep /\ EarlierInterval > 0)
          => /\ StepGap = 2 * EarlierInterval => StepMerges
             /\ (StepGap >= 3 * EarlierInterval /\ StepGap > 2 * LaterInterval)
                    => StepSplits
             /\ (StepGap >= 3 * EarlierInterval /\ StepGap <= 2 * LaterInterval)
                    => StepMerges]_vars

\* the interval grew from 2 to 6 and the later snapshot came 3 * 2 seconds after
\* the earlier: the step merged it into the session opened at 0
C14_Witness ==
    /\ pc = "walk" /\ Len(g) = 2
    /\ g[1].collection_interval = 2 /\ g[2].collection_interval = 6
    /\ loc.prev_interv = 2 /\ loc.interv = 6 /\ loc.gap = 6
    /\ current # <<>> /\ current[1].start_ts = 0 /\ current[1].end_ts = 12
    /\ sessions = <<>>

\* C15: the session computation never raises, whatever mix of null, NaN, zero,
\* negative, infinite and valid intervals the input carries
C15_NeverRaises == pc # "raised"

\* C16: on an empty input frame a session loop and the timeline never walk a
\* group and never raise, and return no session; on two empty inputs each merge
\* returns an empty frame
C16_EmptyInput ==
    /\ (entry \in {"game", "voice", "timeline"} /\ df = <<>>)
         => /\ pc \in {"groups", "start", "done"}
            /\ sessions = <<>>
            /\ sess_df = <<>>
    /\ (entry \in {"provider", "database"} /\ df_steam = <<>> /\ df_discord = <<>>)
         => /\ pc \in {"provider", "database", "provider_merged", "database_merged"}
            /\ merged = <<>>

\* a call on empty input has returned
C16_Witness ==
    \/ entry \in {"game", "voice", "timeline"} /\ df = <<>> /\ pc = "done"
    \/ /\ entry \in {"provider", "database"} /\ df_steam = <<>> /\ df_discord = <<>>
       /\ pc \in {"provider_merged", "database_merged"}

\* the rows of a frame that carry a group key, in frame order
RECURSIVE RowsOfKey(_, _)
RowsOfKey(frame, key) ==
    IF frame = <<>> THEN <<>>
    ELSE IF GameKey(Head(frame)) = key
         THEN <<Head(frame)>> \o RowsOfKey(Tail(frame), key)
         ELSE RowsOfKey(Tail(frame), key)

SpanList(table) == [k \in 1..Len(table) |-> <<table[k].start_ts, table[k].end_ts>>]

CloseSpan(out, cur) ==
    IF cur # <<>> /\ cur[1][2] > cur[1][1] THEN Append(out, cur[1]) ELSE out

\* the sessions of one group taken alone: its rows in timestamp order, from row
\* k on, with the open span cur and the closed spans out
RECURSIVE WalkAlone(_, _, _, _, _)
WalkAlone(rows, k, cur, out, default) ==
    IF k > Len(rows) THEN CloseSpan(out, cur)
    ELSE LET ts == rows[k].timestamp
             end == FAdd(ts, EffectiveInterval(rows[k].collection_interval, default))
         IN IF cur = <<>>
            THEN WalkAlone(rows, k + 1, <<<<ts, end>>>>, out, default)
            ELSE IF ts - rows[k - 1].timestamp
                        <= Tolerance(rows[k - 1], rows[k], default)
            THEN WalkAlone(rows, k + 1, <<<<cur[1][1], Max2(cur[1][2], end)>>>>,
                           out, default)
            ELSE WalkAlone(rows, k + 1, <<<<ts, end>>>>, CloseSpan(out, cur),
                           default)

SessionsAlone(rows) ==
    WalkAlone(SortByTimestamp(rows), 1, <<>>, <<>>, DefaultInterval(rows))

\* C17: every returned game session carries the key of a group of the input,
\* and the sessions that carry a key are exactly the sessions of that group's
\* snapshots taken alone: no snapshot of another (user_name, game_name, source)
\* group, in particular of the other source, is coalesced into them or changes
\* them
C17_GroupIsolation ==
    pc = "done" =>
        /\ \A k \in 1..Len(sess_df) : GameKey(sess_df[k]) \in GameKeysOf(df)
        /\ \A key \in GameKeysOf(df) :
             SpanList(RowsOfKey(sess_df, key)) = SessionsAlone(RowsOfKey(df, key))

\* a steam and a discord snapshot of one user and game at the same timestamp
\* were returned as two sessions
C17_Witness ==
    /\ pc = "done" /\ Len(df) = 2
    /\ df[1].source # df[2].source /\ df[1].timestamp = df[2].timestamp
    /\ Len(sess_df) = 2 /\ sess_df[1].source # sess_df[2].source

\* the rows of a voice frame of one user, and those of one user and channel
RECURSIVE RowsOfUser(_, _)
RowsOfUser(frame, user) ==
    IF frame = <<>> THEN <<>>
    ELSE IF Head(frame).user_name = user
         THEN <<Head(frame)>> \o RowsOfUser(Tail(frame), user)
         ELSE RowsOfUser(Tail(frame), user)

RECURSIVE RowsOfChannel(_, _)
RowsOfChannel(rows, chan) ==
    IF rows = <<>> THEN <<>>
    ELSE IF Head(rows).channel_name = chan
         THEN <<Head(rows)>> \o RowsOfChannel(Tail(rows), chan)
         ELSE RowsOfChannel(Tail(rows), chan)

MedianOfValid(rows) ==
    IF ValidOnly(Intervals(rows)) # <<>> THEN median(ValidOnly(Intervals(rows)))
    ELSE SystemDefaultInterval

\* every interval of the rows is null or valid
NullOrValid(rows) ==
    \A k \in 1..Len(rows) :
        rows[k].collection_interval = None
            \/ IsValidInterval(rows[k].collection_interval)

MaxEndOver(a, b) ==
    CHOOSE m \in {SnapshotEnd(g[j]) : j \in a..b} :
        \A j \in a..b : m >= SnapshotEnd(g[j])

Within(j) ==
    g[j].timestamp - g[j - 1].timestamp <= Tolerance(g[j - 1], g[j], default_interval)

\* the open session was opened at a row k of the group, which did not merge
\* into its predecessor; every row since merged; start_ts is the timestamp of
\* row k and end_ts the maximum of timestamp + effective interval since row k
C19_OpenSession ==
    (entry = "game" /\ pc = "walk" /\ current # <<>>) =>
        \E k \in 1..(idx - 1) :
            /\ k > 1 => ~Within(k)
            /\ \A j \in (k + 1)..(idx - 1) : Within(j)
            /\ current[1].start_ts = g[k].timestamp
            /\ current[1].end_ts = MaxEndOver(k, idx - 1)

\* a merge leaves the session list and start_ts alone and raises end_ts to the
\* snapshot's end if that is larger
C19_MergeStep ==
    (AtStep /\ Within(idx)) =>
        /\ sessions' = sessions
        /\ current'[1].start_ts = current[1].start_ts
        /\ current'[1].end_ts >= current[1].end_ts
        /\ current'[1].end_ts = Max2(current[1].end_ts, SnapshotEnd(g[idx]))

\* a closure appends the open session as it is
C19_Closure ==
    (entry = "game" /\ pc = "walk" /\ current # <<>> /\ sessions' # sessions)
        => sessions' = Append(sessions, current[1])

\* C19: the start_ts of a session is the timestamp of the snapshot that opened
\* it and no merge changes it; a merge never lowers end_ts; when the session is
\* closed its end_ts is the maximum of timestamp + effective interval over the
\* snapshots merged into it
C19_Accumulator ==
    [][C19_MergeStep /\ C19_Closure]_vars /\ [](C19_OpenSession)

\* a snapshot that ends before the open session does was merged into it
C19_Witness ==
    /\ entry = "game" /\ pc = "walk" /\ idx = 3 /\ current # <<>>
    /\ g[1].collection_interval = 6 /\ g[2].collection_interval = 2
    /\ current[1].start_ts = g[1].timestamp
    /\ loc.ts > current[1].start_ts
    /\ loc.snapshot_end < current[1].end_ts

\* C20: a game loop step whose row has the timestamp of the previous row of the
\* group (gap = 0) keeps the row in the open session
C20_TiesMerge ==
    [][(AtStep /\ StepGap = 0) => StepMerges]_vars

\* ------------------------------------------------------------------ C21
\* the sessions of one (game_name, user_name, source) key in the session table
SessionsOfKey(key) == {k \in 1..Len(sess_df) : RankKey(sess_df[k]) = key}

\* C21: the ranking has exactly one row per (game_name, user_name, source)
\* that has a session, the row's duration_seconds is the longest duration among
\* that key's sessions, and the rows are in non-increasing duration order.
C21_LongestSessions ==
    (entry = "game" /\ pc = "ranked") =>
        /\ \A key \in RankKeysOf(sess_df) :
             Cardinality({k \in 1..Len(ranking) : RankKey(ranking[k]) = key}) = 1
        /\ \A k \in 1..Len(ranking) :
             /\ SessionsOfKey(RankKey(ranking[k])) # {}
             /\ \E i \in SessionsOfKey(RankKey(ranking[k])) :
                  sess_df[i].duration_seconds = ranking[k].duration_seconds
             /\ \A i \in SessionsOfKey(RankKey(ranking[k])) :
                  sess_df[i].duration_seconds <= ranking[k].duration_seconds
        /\ \A k \in 1..(Len(ranking) - 1) :
             ranking[k].duration_seconds >= ranking[k + 1].duration_seconds

\* a ranking of two keys in which the sort turned the groupby order round
C21_Witness ==
    /\ entry = "game" /\ pc = "ranked"
    /\ Len(ranking) = 2
    /\ GameKeyLess(RankKey(ranking[2]), RankKey(ranking[1]))
    /\ ranking[1].duration_seconds > ranking[2].duration_seconds

\* ------------------------------------------------------------------ C22
\* the configured Steam users, as indexes of user_steam_ids
SteamUsers == 1..Len(user_steam_ids)

NetworkErrors == {"SSLError", "ConnectionError", "Timeout"}

\* get_user_details has been called at most 3 times for each user
C22_AtMostThree == \A u \in SteamUsers : calls[u] <= 3

\* a call that is not the user's first follows a network error of the call
\* before it and one backoff sleep per earlier call
C22_RetryStep ==
    \A u \in SteamUsers :
        calls'[u] # calls[u] =>
            /\ calls'[u] = calls[u] + 1
            /\ calls[u] > 0 =>
                 /\ last_result[u] \in NetworkErrors
                 /\ Len(sleeps[u]) = calls[u]

\* C22: in one collect_steam_data run get_user_details is called at most 3
\* times per user; a further attempt follows only a network error (SSLError,
\* ConnectionError, Timeout) and the backoff sleep, a success or another
\* exception ends the user's attempts, and the run returns.
C22_BoundedRetry ==
    /\ [](C22_AtMostThree)
    /\ [][C22_RetryStep]_vars
    /\ <>(steam_pc = "returned")

\* a run that returned after three calls and two sleeps for one user
C22_Witness ==
    /\ steam_pc = "returned"
    /\ \E u \in SteamUsers :
         /\ calls[u] = 3
         /\ sleeps[u] = <<3, 6>>
         /\ last_result[u] \in NetworkErrors

\* ------------------------------------------------------------------ C23
\* C23: collect_steam_data never raises; when it returns, every configured
\* user has been fetched, whatever happened to the users before it; and a row
\* is inserted only for a user whose fetch ended with details that name a game,
\* at most once.
C23_UserIsolation ==
    /\ steam_pc # "raised"
    /\ steam_pc = "returned" => \A u \in SteamUsers : calls[u] >= 1
    /\ \A k \in 1..Len(steam_rows) :
         /\ last_result[steam_rows[k]] = "game"
         /\ \A j \in 1..Len(steam_rows) : steam_rows[j] = steam_rows[k] => j = k

\* the first user's fetch gave up after three network errors and the second
\* user was still fetched and inserted
C23_Witness ==
    /\ steam_pc = "returned"
    /\ Len(user_steam_ids) >= 2
    /\ calls[1] = 3 /\ last_result[1] \in NetworkErrors
    /\ steam_rows = <<2>>

\* ------------------------------------------------------------------ C24
\* the mappings a get() may return: the initial empty one and those stored by
\* a set() so far
Settable == published \cup {{}}

\* C24: every mapping get() returns is, item for item, one mapping stored by
\* an earlier set() or the initial empty mapping, never a mixture of two; and
\* the cache itself always holds such a mapping, so a caller that changes the
\* mapping it got does not change what later get() calls return.
C24_ThreadSafeCache ==
    /\ heap[figures_ref] \in Settable
    /\ \A t \in DOMAIN req_pc :
         req_pc[t] = "returned" => heap[req_result[t]] \in Settable

\* a get() returned the figures of the first build while the second build is
\* already stored, and an earlier caller has changed the mapping it got
C24_Witness ==
    /\ \E t \in DOMAIN req_pc :
         /\ req_pc[t] = "returned"
         /\ heap[req_result[t]] = BuiltFigures(1)
    /\ heap[figures_ref] = BuiltFigures(2)
    /\ \E o \in 1..Len(heap) : <<"voice", 0>> \in heap[o]

\* ------------------------------------------------------------------ C25
\* the step is a load_* call on this cache with this force flag
IsLoad(cache, force) == loads' = loads + 1 /\ load_call' = <<cache, force>>

\* the cache has an entry and current time - loaded_ts < ttl_seconds, in half
\* seconds
Fresh(cache) ==
    /\ entries[cache] # <<>>
    /\ clock - 2 * entries[cache][1].loaded_ts < 2 * ttl_seconds

C25_LoadStep ==
    \A cache \in CacheNames, force \in BOOLEAN :
        IsLoad(cache, force) =>
            /\ \A other \in CacheNames \ {cache} : entries'[other] = entries[other]
            /\ IF ~force /\ Fresh(cache)
               THEN /\ queries' = queries
                    /\ load_result' = entries[cache][1].df
                    /\ entries'[cache] = entries[cache]
               ELSE /\ queries' = queries + 1
                    /\ load_result' = queries'
                    /\ entries'[cache] = <<[df |-> load_result',
                                            loaded_ts |-> clock' \div 2]>>

\* C25: a load_* call with force=False returns the cached frame without a
\* database query exactly when the cache has an entry and current time -
\* loaded_ts < ttl_seconds; every other call queries the database and replaces
\* the entry by the new frame with loaded_ts = the current time in whole
\* seconds; the entries of the other three caches stay as they are.
C25_TtlCache == [][C25_LoadStep]_vars

\* three un-forced calls on one cache: one was served from the cache and the
\* latest, a minute or more after the start, queried again
C25_Witness ==
    /\ queries = 2
    /\ loads = 3
    /\ load_call = <<"steam", FALSE>>
    /\ ttl_seconds = 60
    /\ clock - 2 * entries["steam"][1].loaded_ts <= 1
    /\ clock >= 120
    /\ \A c \in CacheNames \ {"steam"} : entries[c] = <<>>

\* ------------------------------------------------------------------ C26
\* the group of a row: (user, game, source) in the game loop, the user in the
\* voice loop
GroupOf(row) == IF entry = "game" THEN GameKey(row) ELSE <<row.user_name>>

\* the timestamps within each group are pairwise distinct
DistinctInGroups(frame) ==
    \A i, j \in 1..Len(frame) :
        (i # j /\ GroupOf(frame[i]) = GroupOf(frame[j])) =>
            frame[i].timestamp # frame[j].timestamp

\* C26: for an input whose timestamps are pairwise distinct within each group,
\* the loop emits the same set of sessions whatever the order of the rows.
C26_OrderIndependence ==
    (call_no = 2 /\ pc \in {"done", "raised"} /\ DistinctInGroups(first_df)) =>
        /\ pc = first_out[1]
        /\ FrameRows(sess_df) = FrameRows(first_out[2])

\* two sessions came out of rows handed over in descending timestamp order
C26_Witness ==
    /\ call_no = 2 /\ pc = "done"
    /\ DistinctInGroups(first_df)
    /\ Len(df) >= 3
    /\ \A k \in 1..(Len(df) - 1) : df[k].timestamp > df[k + 1].timestamp
    /\ Len(sess_df) = 2

\* ------------------------------------------------------------------ C27
\* a game pipeline has returned its session table
PipelineReturned == pipeline # "none" /\ entry = "game" /\ pc = "done"

\* C27: in the session table of a game pipeline no discord session of a user
\* overlaps in time a steam session of that user.
C27_NoDoubleCounting ==
    PipelineReturned =>
        \A i, j \in 1..Len(sess_df) :
            (/\ sess_df[i].source = "steam" /\ sess_df[j].source = "discord"
             /\ sess_df[i].user_name = sess_df[j].user_name) =>
                ~Overlap(sess_df[i], sess_df[j])

\* ------------------------------------------------------------------ C28
\* the (user_name, game_name, source, start_ts, end_ts) set of a session table
SessionTuples(table) ==
    {<<table[k].user_name, table[k].game_name, table[k].source,
       table[k].start_ts, table[k].end_ts>> : k \in 1..Len(table)}

\* C28: on the same steam and discord rows, load_all and
\* query_get_game_activity_sessions end the same way and give the same
\* (user_name, game_name, source, start_ts, end_ts) set.
C28_PipelinesAgree ==
    (pipeline = "database" /\ entry = "game" /\ pc \in {"done", "raised"}) =>
        /\ pc = provider_out[1]
        /\ SessionTuples(sess_df) = SessionTuples(provider_out[2])

\* ------------------------------------------------------------------ C29
\* the calls a log holds for the day "day" of the run
CallsOn(log, day) == {k \in 1..Len(log) : log[k].day = day}

\* the weekly window: Monday, 9 o'clock, minute 0 to 2 * interval_minutes
InWeeklyWindow(t) ==
    t.tm_wday = 0 /\ t.tm_hour = 9 /\ t.tm_min <= interval_minutes * 2

\* C29: on every calendar day of a run of core_loop, create_weekly_newsletter
\* is called at most once and create_monthly_newsletter is called at most
\* once, whether or not a creation raised.
C29_OncePerDay ==
    \A day \in 0..MaxDays :
        /\ Cardinality(CallsOn(weekly_log, day)) <= 1
        /\ Cardinality(CallsOn(monthly_log, day)) <= 1

\* a later iteration of the same day is inside the weekly window after the
\* weekly creation of that day raised, and has made no second call
C29_Witness ==
    /\ core_pc = "discord"
    /\ InWeeklyWindow(now_tm)
    /\ \E k \in CallsOn(weekly_log, wall.day) :
         weekly_log[k].result = "raised" /\ weekly_log[k].iteration < iterations
    /\ Cardinality(CallsOn(weekly_log, wall.day)) = 1

\* ------------------------------------------------------------------ C30
\* C30: core_loop is never ended by a failed collection, and an iteration
\* that reaches its sleep has run both collections.
C30_LoopSurvives ==
    /\ core_pc # "raised"
    /\ core_pc = "sleep" => (discord_result # "none" /\ steam_result # "none")

====
